---- MODULE Spec2Model ----
(***************************************************************************)
(* Bill allocation engine (src/src/allocator.py, splitter.py,              *)
(* constraints.py, scoring.py, models.py).                                 *)
(*                                                                         *)
(* Amounts are integers (one unit = one smallest currency step of the      *)
(* inputs).  Ratios and scores are exact rationals <<n, d>> with d > 0,    *)
(* kept in lowest terms.  The inputs are restricted to those on which      *)
(* every product ratio * face amount the code forms is a whole number.     *)
(* The arithmetic is exact: the rounding of Python floats and the          *)
(* TypeError of an operation that mixes Decimal and float operands are     *)
(* outside the model.  Warnings are records [kind, val] instead of the     *)
(* formatted strings.  A TicketUsage holds the value its ticket had when   *)
(* the usage was built; the pool holds the Ticket objects.                 *)
(***************************************************************************)
EXTENDS Integers, Sequences, FiniteSets, TLC

VARIABLES
    config,         \* AllocationEngine.config
    rng,            \* AllocationEngine.rng: [seed, calls]
    ticket_pool,    \* the shared list of Ticket objects
    orders,         \* allocate_batch: the caller's input list
    orders_sorted,  \* allocate_batch: the priority-sorted list
    results,        \* allocate_batch: the list of results being built
    pc,             \* "idle", "batch" (inside allocate_batch's loop), "returned"
    calls,          \* history: one record per finished allocate call
    inflight,       \* per calling thread: <<its allocate call that has selected
                    \* but not yet decremented the pool>>, or None
    engine          \* the number of AllocationEngine objects built so far

vars == <<config, rng, ticket_pool, orders, orders_sorted, results, pc, calls, inflight, engine>>

-----------------------------------------------------------------------------
(* Exact rational arithmetic *)

Abs(i) == IF i < 0 THEN -i ELSE i

RECURSIVE GCD(_, _)
GCD(a, b) == IF b = 0 THEN a ELSE GCD(b, a % b)

Rat(n, d) ==
    LET s == IF d < 0 THEN -1 ELSE 1
        g == GCD(Abs(n), Abs(d))
    IN  IF n = 0 THEN <<0, 1>> ELSE <<(s * n) \div g, (s * d) \div g>>

RInt(i) == <<i, 1>>
RZero == <<0, 1>>
ROne == <<1, 1>>
RAdd(p, q) == Rat(p[1] * q[2] + q[1] * p[2], p[2] * q[2])
RSub(p, q) == Rat(p[1] * q[2] - q[1] * p[2], p[2] * q[2])
RMul(p, q) == Rat(p[1] * q[1], p[2] * q[2])
RDiv(p, q) == Rat(p[1] * q[2], p[2] * q[1])
RLe(p, q) == p[1] * q[2] <= q[1] * p[2]
RLt(p, q) == p[1] * q[2] < q[1] * p[2]
RGe(p, q) == RLe(q, p)
RGt(p, q) == RLt(q, p)
REq(p, q) == p[1] * q[2] = q[1] * p[2]
RMax(p, q) == IF RLt(p, q) THEN q ELSE p
RMin(p, q) == IF RLt(q, p) THEN q ELSE p
\* a rational that is a whole number, as an integer
RWhole(p) == p[1] \div p[2]
IsWhole(p) == p[1] % p[2] = 0

Min2(a, b) == IF a <= b THEN a ELSE b
Max2(a, b) == IF a >= b THEN a ELSE b

RECURSIVE SumSeq(_)
SumSeq(s) == IF s = <<>> THEN 0 ELSE Head(s) + SumSeq(Tail(s))

RECURSIVE RSumSeq(_)
RSumSeq(s) == IF s = <<>> THEN RZero ELSE RAdd(Head(s), RSumSeq(Tail(s)))

\* index of the first element of s maximal under Key (Python max / stable
\* descending sort then [0]); s is not empty
RECURSIVE FirstMaxIdx(_, _, _, _)
FirstMaxIdx(keys, i, best, n) ==
    IF i > n THEN best
    ELSE FirstMaxIdx(keys, i + 1, IF RGt(keys[i], keys[best]) THEN i ELSE best, n)

ArgMaxFirst(keys) == FirstMaxIdx(keys, 2, 1, Len(keys))

\* Python list.sort(key=..., reverse=True) and sorted(..., reverse=True):
\* stable and descending.  keys[i] is the key of element i; the result is
\* the sequence of indices in sorted order.
RECURSIVE InsertDesc(_, _, _)
InsertDesc(sorted, x, keys) ==
    IF sorted = <<>> THEN <<x>>
    ELSE IF RGt(keys[x], keys[Head(sorted)])
         THEN <<x>> \o sorted
         ELSE <<Head(sorted)>> \o InsertDesc(Tail(sorted), x, keys)

RECURSIVE SortDescFrom(_, _, _)
SortDescFrom(i, acc, keys) ==
    IF i > Len(keys) THEN acc
    ELSE SortDescFrom(i + 1, InsertDesc(acc, i, keys), keys)

SortDescIdx_unsorted(keys) == [i \in 1..Len(keys) |-> i]

SortDescIdx(keys) == SortDescFrom(1, <<>>, keys)

-----------------------------------------------------------------------------
(* models.py *)

LARGE == "LARGE"
MEDIUM == "MEDIUM"
SMALL == "SMALL"
\* iteration order of `for label in AmountLabel`
AmountLabel == <<LARGE, MEDIUM, SMALL>>

\* Optional[...] = None
None == <<>>

\* random.Random(seed).random(): the k-th draw (k = 0, 1, ...) of the
\* generator seeded with seed, a value of [0, 1) on a grid of RandomSteps
\* points.  One fixed sequence per seed.
RandomSteps == 4
RandomDraw(seed, k) == Rat((seed + 1) * (k + 1) * (k + 2) % RandomSteps, RandomSteps)

-----------------------------------------------------------------------------
(* constraints.py *)

validate_ticket_filter_no_amount(ticket, cfg) ==
    LET c == cfg.constraint_config
    IN  /\ (c.allowed_maturity_days # None =>
              /\ c.allowed_maturity_days[1] <= ticket.maturity_days
              /\ ticket.maturity_days <= c.allowed_maturity_days[2])
        /\ (c.allowed_acceptor_classes # None =>
              ticket.acceptor_class \in c.allowed_acceptor_classes[1])

validate_ticket_filter(ticket, cfg) ==
    LET c == cfg.constraint_config
    IN  /\ (c.allowed_maturity_days # None =>
              /\ c.allowed_maturity_days[1] <= ticket.maturity_days
              /\ ticket.maturity_days <= c.allowed_maturity_days[2])
        /\ (c.allowed_amount_range # None =>
              /\ c.allowed_amount_range[1] <= ticket.amount
              /\ ticket.amount <= c.allowed_amount_range[2])
        /\ (c.allowed_acceptor_classes # None =>
              ticket.acceptor_class \in c.allowed_acceptor_classes[1])

\* selected: a sequence (only its length is read)
validate_ticket_count(selected, cfg) ==
    Len(selected) <= cfg.constraint_config.max_ticket_count

\* split_ratio is a rational; the result is the code's boolean (its message
\* is dropped by every caller)
validate_split_constraints(ticket_amount, split_ratio, cfg) ==
    LET sc == cfg.split_config
        used == RMul(split_ratio, RInt(ticket_amount))
        remain == RMul(RSub(ROne, split_ratio), RInt(ticket_amount))
    IN  /\ ~ RLt(used, RInt(sc.min_use))
        /\ ~ RLt(remain, RInt(sc.min_remain))
        /\ ~ RLt(split_ratio, sc.min_ratio)

\* sorted(small, key=amount): stable ascending, as indices into small
RECURSIVE InsertAsc(_, _, _)
InsertAsc(sorted, x, keys) ==
    IF sorted = <<>> THEN <<x>>
    ELSE IF keys[x] < keys[Head(sorted)]
         THEN <<x>> \o sorted
         ELSE <<Head(sorted)>> \o InsertAsc(Tail(sorted), x, keys)

RECURSIVE SortAscFrom(_, _, _)
SortAscFrom(i, acc, keys) ==
    IF i > Len(keys) THEN acc
    ELSE SortAscFrom(i + 1, InsertAsc(acc, i, keys), keys)

SortAscIdx(keys) == SortAscFrom(1, <<>>, keys)

Ceil80_floor(n) == (8 * n) \div 10

\* math.ceil(n * 0.8) for the small n of the model (n * 0.8 is exact in
\* binary floating point up to rounding that ceil does not see for n <= 14)
Ceil80(n) == (8 * n + 9) \div 10

IsSmallUsage(tu) == tu.ticket.amount_label = SMALL

\* selected: the sequence of usages; returns [ok, msg]
validate_small_ticket_constraint(selected, order_amount, cfg) ==
    LET c == cfg.constraint_config
        small == SelectSeq(selected, IsSmallUsage)
        keys == [i \in 1..Len(small) |-> small[i].ticket.amount]
        small_sorted == SortAscIdx(keys)
        idx_80 == Max2(1, Ceil80(Len(small)))
        top_80_amount ==
            SumSeq([i \in 1..Min2(idx_80, Len(small)) |->
                        small[small_sorted[i]].used_amount])
        required == RMul(RInt(order_amount), c.small_ticket_80pct_amount_coverage)
    IN  IF ~ c.small_ticket_limited THEN [ok |-> TRUE, msg |-> <<>>]
        ELSE IF small = <<>> THEN [ok |-> TRUE, msg |-> <<>>]
        ELSE IF RLt(RInt(top_80_amount), required)
             THEN [ok |-> FALSE,
                   msg |-> <<[kind |-> "small_ticket_shortfall",
                              val |-> top_80_amount]>>]
             ELSE [ok |-> TRUE, msg |-> <<>>]

-----------------------------------------------------------------------------
(* scoring.py *)

_score_maturity(ticket, weight, ctx) ==
    LET d_min == ctx.maturity_range[1]
        d_max == ctx.maturity_range[2]
        threshold == weight.maturity_threshold
        days == ticket.maturity_days
        r07 == Rat(7, 10)
        r03 == Rat(3, 10)
    IN  IF d_max = d_min THEN ROne
        ELSE IF weight.maturity_strategy = "FAR_FIRST" THEN
            IF days >= threshold THEN
                IF d_max = threshold THEN ROne
                ELSE RAdd(r07, RMul(r03,
                        RMin(ROne, Rat(days - threshold, d_max - threshold))))
            ELSE
                IF threshold = d_min THEN RZero
                ELSE RMul(r07, RMax(RZero, Rat(days - d_min, threshold - d_min)))
        ELSE IF weight.maturity_strategy = "NEAR_FIRST" THEN
            IF days <= threshold THEN
                IF threshold = d_min THEN ROne
                ELSE RAdd(r07, RMul(r03,
                        RMin(ROne, Rat(threshold - days, threshold - d_min))))
            ELSE
                IF d_max = threshold THEN RZero
                ELSE RMul(r07, RMax(RZero, Rat(d_max - days, d_max - threshold)))
        ELSE Rat(1, 2)

_score_acceptor(ticket, weight, ctx) ==
    LET total == Max2(weight.acceptor_class_count, 1)
        acceptor_class == Max2(1, Min2(ticket.acceptor_class, total))
    IN  IF weight.acceptor_strategy = "GOOD_FIRST"
        THEN Rat(total + 1 - acceptor_class, total)
        ELSE Rat(acceptor_class, total)

\* ctx.randomness.random(): the generator's next draw
NextRandom_global(ctx) == RandomDraw(Len(calls), ctx.randomness.calls)

NextRandom(ctx) == RandomDraw(ctx.randomness.seed, ctx.randomness.calls)

\* dict.get(label, (ticket.amount, ticket.amount))
AmountRangeOf(ctx, label, ticket) ==
    IF label \in DOMAIN ctx.amount_range_by_label
    THEN ctx.amount_range_by_label[label]
    ELSE <<ticket.amount, ticket.amount>>

_score_large_first(ticket, cfg, ctx) ==
    LET sub == cfg.weight_config.amount_sub_strategy
        rg == AmountRangeOf(ctx, LARGE, ticket)
        low == rg[1]
        high == rg[2]
    IN  IF ticket.amount_label = LARGE THEN
            IF sub = "SORTED" THEN
                IF high > low
                THEN RAdd(Rat(7, 10),
                          RMul(Rat(3, 10), Rat(ticket.amount - low, high - low)))
                ELSE Rat(85, 100)
            ELSE RAdd(Rat(7, 10), RMul(NextRandom(ctx), Rat(3, 10)))
        ELSE IF ticket.amount_label = MEDIUM THEN Rat(1, 2)
        ELSE Rat(2, 10)

_score_small_first(ticket, cfg, ctx) ==
    LET sub == cfg.weight_config.amount_sub_strategy
        rg == AmountRangeOf(ctx, SMALL, ticket)
        low == rg[1]
        high == rg[2]
    IN  IF ticket.amount_label = SMALL THEN
            IF sub = "SORTED" THEN
                IF high > low
                THEN RAdd(Rat(7, 10),
                          RMul(Rat(3, 10), Rat(high - ticket.amount, high - low)))
                ELSE Rat(85, 100)
            ELSE RAdd(Rat(7, 10), RMul(NextRandom(ctx), Rat(3, 10)))
        ELSE IF ticket.amount_label = MEDIUM THEN Rat(1, 2)
        ELSE Rat(2, 10)

\* current.get(label, 0)
CurrentRatio(ctx, label) ==
    IF label \in DOMAIN ctx.inventory_distribution
    THEN ctx.inventory_distribution[label]
    ELSE RZero

ExpectedRatio(cfg, label) ==
    IF label = LARGE THEN cfg.amount_label_config.large_ratio
    ELSE IF label = MEDIUM THEN cfg.amount_label_config.medium_ratio
    ELSE cfg.amount_label_config.small_ratio

RawWeight(cfg, ctx, label) ==
    IF RGt(CurrentRatio(ctx, label), ExpectedRatio(cfg, label))
    THEN RSub(RMul(RInt(2), CurrentRatio(ctx, label)), ExpectedRatio(cfg, label))
    ELSE RZero

\* `Decimal('2') * current_ratio - expected_ratio` is evaluated for every
\* label with current_ratio > expected_ratio; it raises TypeError unless
\* both operands are Decimal
_score_optimize_inventory_raises(cfg, ctx) ==
    \E i \in 1..Len(AmountLabel) :
        /\ RGt(CurrentRatio(ctx, AmountLabel[i]), ExpectedRatio(cfg, AmountLabel[i]))
        /\ (ctx.inventory_kind # "Decimal" \/ cfg.number_kinds.ratio # "Decimal")

\* the value returned when the call does not raise
_score_optimize_inventory(ticket, cfg, ctx) ==
    LET total_weight ==
            RSumSeq([i \in 1..Len(AmountLabel) |-> RawWeight(cfg, ctx, AmountLabel[i])])
    IN  IF REq(total_weight, RZero) THEN Rat(1, Len(AmountLabel))
        ELSE RDiv(RawWeight(cfg, ctx, ticket.amount_label), total_weight)

_score_amount(ticket, order, cfg, ctx) ==
    LET strategy == cfg.weight_config.amount_strategy
    IN  IF strategy = "LARGE_FIRST" THEN _score_large_first(ticket, cfg, ctx)
        ELSE IF strategy = "SMALL_FIRST" THEN _score_small_first(ticket, cfg, ctx)
        ELSE IF strategy = "RANDOM" THEN NextRandom(ctx)
        ELSE IF strategy = "LESS_THAN_ORDER"
             THEN (IF ticket.amount <= order.amount THEN ROne ELSE Rat(1, 2))
        ELSE IF strategy = "GREATER_THAN_ORDER"
             THEN (IF ticket.amount >= order.amount THEN ROne ELSE Rat(2, 10))
        ELSE IF strategy = "OPTIMIZE_INVENTORY"
             THEN _score_optimize_inventory(ticket, cfg, ctx)
        ELSE Rat(1, 2)

_score_organization(ticket, order, weight) ==
    IF weight.organization_strategy = "SAME_ORG"
    THEN (IF ticket.organization = order.organization THEN ROne ELSE RZero)
    ELSE (IF ticket.organization = order.organization THEN RZero ELSE ROne)

\* the weighted total of score_ticket and the TicketScore it returns
TicketScore(ticket, weight, maturity_score, acceptor_score, amount_score, organization_score) ==
    [ticket |-> ticket,
     total_score |->
         RAdd(RAdd(RMul(weight.w_maturity, maturity_score),
                   RMul(weight.w_acceptor, acceptor_score)),
              RAdd(RMul(weight.w_amount, amount_score),
                   RMul(weight.w_organization, organization_score))),
     maturity_score |-> maturity_score,
     acceptor_score |-> acceptor_score,
     amount_score |-> amount_score,
     organization_score |-> organization_score]

\* the TicketScore of one ticket; a random amount score is the draw that
\* ctx.randomness is about to make
score_ticket(ticket, order, cfg, ctx) ==
    TicketScore(ticket, cfg.weight_config,
                _score_maturity(ticket, cfg.weight_config, ctx),
                _score_acceptor(ticket, cfg.weight_config, ctx),
                _score_amount(ticket, order, cfg, ctx),
                _score_organization(ticket, order, cfg.weight_config))

\* the number of draws score_ticket takes from the generator for this ticket
DrawsOf(ticket, cfg) ==
    LET w == cfg.weight_config
    IN  IF w.amount_strategy = "RANDOM" THEN 1
        ELSE IF /\ w.amount_strategy = "LARGE_FIRST"
                /\ ticket.amount_label = LARGE
                /\ w.amount_sub_strategy # "SORTED" THEN 1
        ELSE IF /\ w.amount_strategy = "SMALL_FIRST"
                /\ ticket.amount_label = SMALL
                /\ w.amount_sub_strategy # "SORTED" THEN 1
        ELSE 0

\* the generator after n more draws
Advance(ctx, n) ==
    [ctx EXCEPT !.randomness = [seed |-> ctx.randomness.seed,
                                calls |-> ctx.randomness.calls + n]]

\* the draws taken by scoring tickets[1..k] one after the other
DrawsOfList(tickets, k, cfg) ==
    SumSeq([i \in 1..k |-> DrawsOf(tickets[i], cfg)])

\* [score_ticket(t, order, config, ctx) for t in tickets]
ScoreList(tickets, order, cfg, ctx) ==
    [i \in 1..Len(tickets) |->
        score_ticket(tickets[i], order, cfg,
                     Advance(ctx, DrawsOfList(tickets, i - 1, cfg)))]

-----------------------------------------------------------------------------
(* splitter.py *)

TicketUsage(ticket, used_amount, split_ratio, score, order_index) ==
    [ticket |-> ticket, used_amount |-> used_amount, split_ratio |-> split_ratio,
     score |-> score, order_index |-> order_index]

UsedAmounts(selected) == [i \in 1..Len(selected) |-> selected[i].used_amount]

\* a rational
_calculate_tail_diff_min(order_amount, cfg) ==
    RMin(RInt(cfg.split_config.tail_diff_abs),
         RMul(RInt(order_amount), cfg.split_config.tail_diff_ratio))

_calculate_tail_diff_flagged(order_amount, cfg) ==
    IF cfg.split_config.split_condition_unlimited THEN RZero
    ELSE RMax(RInt(cfg.split_config.tail_diff_abs),
              RMul(RInt(order_amount), cfg.split_config.tail_diff_ratio))

_calculate_tail_diff(order_amount, cfg) ==
    RMax(RInt(cfg.split_config.tail_diff_abs),
         RMul(RInt(order_amount), cfg.split_config.tail_diff_ratio))

\* the index in tickets of the ticket chosen for splitting, 0 for None
_select_split_ticket(tickets, cfg, ctx, order, bias) ==
    LET strategy == cfg.split_config.split_strategy
        ByScore(scored) ==
            ArgMaxFirst([i \in 1..Len(tickets) |->
                            IF strategy = "BY_MATURITY"
                            THEN scored[i].maturity_score
                            ELSE scored[i].acceptor_score])
    IN  IF tickets = <<>> THEN 0
        ELSE IF strategy \in {"BY_MATURITY", "BY_ACCEPTOR_CLASS"}
             THEN ByScore(ScoreList(tickets, order, cfg, ctx))
        ELSE IF strategy = "BY_AMOUNT_LARGE"
             THEN ArgMaxFirst([i \in 1..Len(tickets) |-> RInt(tickets[i].amount)])
        ELSE IF strategy = "BY_AMOUNT_CLOSE"
             THEN ArgMaxFirst([i \in 1..Len(tickets) |->
                                  RInt(- Abs(tickets[i].amount - bias))])
        ELSE 1

\* the draws _select_split_ticket takes from the generator
SelectDraws(tickets, cfg) ==
    IF cfg.split_config.split_strategy \in {"BY_MATURITY", "BY_ACCEPTOR_CLASS"}
    THEN DrawsOfList(tickets, Len(tickets), cfg)
    ELSE 0

\* returns [ok, selected, msg, draws]; ok = FALSE is the code's None
_add_split_ticket(selected, remaining, bias, cfg, ctx, order) ==
    LET enough == SelectSeq(remaining, LAMBDA t : t.available_amount >= bias)
        positive == SelectSeq(remaining, LAMBDA t : t.available_amount > 0)
        available == IF enough # <<>> THEN enough ELSE positive
        sdraws == SelectDraws(available, cfg)
        fail(d) == [ok |-> FALSE, selected |-> selected, msg |-> <<>>, draws |-> d]
        \* the code from `usable_amount = min(...)` on, for candidate
        \* available[ci] with first and fallback ratios ratio0, ratio1
        Split(ci, ratio0, ratio1, ok0, ok1) ==
            LET candidate == available[ci]
                usable_amount ==
                    IF ok0 THEN Min2(bias, candidate.available_amount)
                    ELSE RWhole(RMul(ratio1, RInt(candidate.amount)))
                score_obj == score_ticket(candidate, order, cfg, Advance(ctx, sdraws))
                tu == TicketUsage(candidate, usable_amount,
                                  IF ok0 THEN ratio0 ELSE ratio1,
                                  score_obj, Len(selected))
            IN  IF ~ RGt(ratio0, RZero) THEN fail(sdraws)
                ELSE IF ~ ok0 /\ ~ ok1 THEN fail(sdraws)
                ELSE [ok |-> TRUE,
                      selected |-> Append(selected, tu),
                      msg |-> <<[kind |-> "augment", val |-> candidate.id]>>,
                      draws |-> sdraws + DrawsOf(candidate, cfg)]
        Ratios(ci, ratio0, ratio1) ==
            Split(ci, ratio0, ratio1,
                  validate_split_constraints(available[ci].amount, ratio0, cfg),
                  validate_split_constraints(available[ci].amount, ratio1, cfg))
        Candidate(ci, ratio0) ==
            IF ci = 0 THEN fail(sdraws)
            ELSE Ratios(ci, ratio0, RMax(cfg.split_config.min_ratio, ratio0))
        Chosen(ci) ==
            Candidate(ci, IF ci = 0 THEN RZero
                          ELSE Rat(Min2(bias, available[ci].available_amount),
                                   available[ci].amount))
    IN  IF available = <<>> THEN fail(0)
        ELSE Chosen(_select_split_ticket(available, cfg, ctx, order, bias))

\* the first index i of selected with selected[i].ticket.id = id, 0 if none
RECURSIVE FirstWithId(_, _, _)
FirstWithId(selected, id, i) ==
    IF i > Len(selected) THEN 0
    ELSE IF selected[i].ticket.id = id THEN i
    ELSE FirstWithId(selected, id, i + 1)

_split_from_selected_drop(selected, bias, cfg, ctx, order) ==
    [ok |-> TRUE,
     selected |-> SubSeq(selected, 1, Len(selected) - 1),
     msg |-> <<[kind |-> "reduce", val |-> 0]>>,
     draws |-> 0]

\* bias is the absolute value of the (negative) difference;
\* returns [ok, selected, msg, draws]
_split_from_selected(selected, bias, cfg, ctx, order) ==
    LET enough == SelectSeq(selected, LAMBDA tu : tu.used_amount >= bias)
        candidates0 == IF enough # <<>> THEN enough ELSE selected
        strict_candidates ==
            SelectSeq(candidates0,
                      LAMBDA tu : REq(tu.split_ratio, ROne) /\ tu.used_amount >= bias)
        candidates == IF strict_candidates # <<>> THEN strict_candidates ELSE candidates0
        ctickets == [i \in 1..Len(candidates) |-> candidates[i].ticket]
        sdraws == SelectDraws(ctickets, cfg)
        fail(d) == [ok |-> FALSE, selected |-> selected, msg |-> <<>>, draws |-> d]
        \* the body of `for tu in selected` at the usage k it stops at
        Reduce(k, new_ratio) ==
            LET tu == selected[k]
                new_used == tu.used_amount - bias
            IN  IF RLt(new_ratio, RZero) THEN fail(sdraws)
                ELSE IF ~ validate_split_constraints(tu.ticket.amount, new_ratio, cfg)
                     THEN fail(sdraws)
                ELSE [ok |-> TRUE,
                      selected |-> [selected EXCEPT ![k] =
                                       [@ EXCEPT !.used_amount = new_used,
                                                 !.split_ratio = new_ratio]],
                      msg |-> <<[kind |-> "reduce", val |-> new_used]>>,
                      draws |-> sdraws]
        Found(k) ==
            IF k = 0 THEN fail(sdraws)
            ELSE Reduce(k, Rat(selected[k].used_amount - bias,
                               selected[k].ticket.amount))
        Chosen(ci) ==
            IF ci = 0 THEN fail(sdraws)
            ELSE Found(FirstWithId(selected, ctickets[ci].id, 1))
    IN  IF selected = <<>> THEN fail(0)
        ELSE Chosen(_select_split_ticket(ctickets, cfg, ctx, order, bias))

\* the number of passes of adjust_with_split's loop
LoopGuardMax == 5

\* the negation of `while loop_guard < 5`
LoopGuardReached_late(loop_guard) == loop_guard > LoopGuardMax

LoopGuardReached(loop_guard) == loop_guard >= LoopGuardMax

\* one pass of the while loop and, unless it breaks, the passes after it;
\* st = [selected, warnings, draws] and, for the record, entry (the selection
\* adjust_with_split was called with), passes (the passes of the loop) and
\* reduce (the pass that called _split_from_selected, and what it was given)
RECURSIVE AdjustLoop(_, _, _, _, _, _)
AdjustLoop(st, loop_guard, remaining_tickets, order, cfg, ctx) ==
    LET tail_diff == _calculate_tail_diff(order.amount, cfg)
        bias == order.amount - SumSeq(UsedAmounts(st.selected))
        rbias == RInt(bias)
        here == Advance(ctx, st.draws)
        \* the loop is left in this pass
        break(s) == [s EXCEPT !.passes = loop_guard + 1]
        warn(kind) ==
            break([st EXCEPT !.warnings = Append(@, [kind |-> kind, val |-> bias])])
        after(s, r, kind) ==
            [s EXCEPT !.selected = r.selected,
                      !.warnings = Append(@, [kind |-> kind, val |-> r.msg[1].val]),
                      !.draws = @ + r.draws]
        failed(s, r, kind) ==
            break([s EXCEPT !.warnings = Append(@, [kind |-> kind, val |-> bias]),
                            !.draws = @ + r.draws])
        \* `if result: ... continue` / warn and break, for the result r
        Continue(s, r, done, not_done) ==
            IF r.ok
            THEN AdjustLoop(after(s, r, done), loop_guard + 1,
                            remaining_tickets, order, cfg, ctx)
            ELSE failed(s, r, not_done)
        noted ==
            [st EXCEPT !.reduce = <<[pass |-> loop_guard + 1,
                                     before |-> st.selected,
                                     bias |-> bias]>>]
    IN  IF LoopGuardReached(loop_guard) THEN [st EXCEPT !.passes = loop_guard]
        ELSE IF /\ bias > 0
                /\ RLe(rbias, tail_diff)
                /\ ~ cfg.split_config.split_condition_unlimited
             THEN warn("wire_transfer")
        ELSE IF RLe(RInt(Abs(bias)), tail_diff) THEN break(st)
        ELSE IF RGt(rbias, tail_diff) THEN
            IF ~ cfg.split_config.allow_split THEN warn("split_not_allowed")
            ELSE Continue(st,
                          _add_split_ticket(st.selected, remaining_tickets, bias,
                                            cfg, here, order),
                          "augment", "cannot_augment")
        ELSE IF RLt(rbias, RSub(RZero, tail_diff)) THEN
            IF ~ cfg.split_config.allow_split THEN warn("split_not_allowed")
            ELSE Continue(noted,
                          _split_from_selected(st.selected, Abs(bias), cfg, here,
                                               order),
                          "reduce", "cannot_reduce")
        ELSE AdjustLoop(st, loop_guard + 1, remaining_tickets, order, cfg, ctx)

\* returns [selected, warnings, draws, entry, passes, reduce]
adjust_with_split(selected, remaining_tickets, order, cfg, ctx) ==
    AdjustLoop([selected |-> selected, warnings |-> <<>>, draws |-> 0,
                entry |-> selected, passes |-> 0, reduce |-> None],
               0, remaining_tickets, order, cfg, ctx)

-----------------------------------------------------------------------------
(* allocator.py *)

MinOf(S) == CHOOSE x \in S : \A y \in S : x <= y
MaxOf(S) == CHOOSE x \in S : \A y \in S : x >= y

SeqRange(s) == {s[i] : i \in 1..Len(s)}

LabelAmounts(tickets, label) ==
    SelectSeq([i \in 1..Len(tickets) |-> tickets[i]],
              LAMBDA t : t.amount_label = label)

\* the ScoringContext of a list of tickets; generator = the engine's generator
_build_context(tickets, generator) ==
    LET days == {tickets[i].maturity_days : i \in 1..Len(tickets)}
        present == {l \in SeqRange(AmountLabel) : LabelAmounts(tickets, l) # <<>>}
        amountsOf(l) == {t.amount : t \in SeqRange(LabelAmounts(tickets, l))}
        labelSum(l) ==
            SumSeq([i \in 1..Len(LabelAmounts(tickets, l)) |->
                        LabelAmounts(tickets, l)[i].amount])
        total_amount == SumSeq([i \in 1..Len(tickets) |-> tickets[i].amount])
    IN  IF tickets = <<>> THEN
            [maturity_range |-> <<0, 365>>,
             amount_range_by_label |->
                 [l \in SeqRange(AmountLabel) |->
                     IF l = LARGE THEN <<1000000, 10000000>>
                     ELSE IF l = MEDIUM THEN <<100000, 1000000>>
                     ELSE <<10000, 100000>>],
             inventory_distribution |->
                 [l \in SeqRange(AmountLabel) |->
                     IF l = SMALL THEN Rat(34, 100) ELSE Rat(33, 100)],
             inventory_kind |-> "float",
             randomness |-> generator]
        ELSE
            [maturity_range |-> <<MinOf(days), MaxOf(days)>>,
             amount_range_by_label |->
                 [l \in present |-> <<MinOf(amountsOf(l)), MaxOf(amountsOf(l))>>],
             inventory_distribution |->
                 IF total_amount > 0
                 THEN [l \in SeqRange(AmountLabel) |-> Rat(labelSum(l), total_amount)]
                 ELSE [l \in SeqRange(AmountLabel) |-> Rat(1, Len(AmountLabel))],
             \* the type of label_sum / total_amount, or of 1.0 / 3
             inventory_kind |->
                 IF total_amount > 0 THEN config.number_kinds.amount ELSE "float",
             randomness |-> generator]

Decrement_face(pool, id, amount) ==
    [i \in 1..Len(pool) |->
        IF pool[i].id = id
        THEN [pool[i] EXCEPT !.available_amount = pool[i].amount - amount]
        ELSE pool[i]]

\* the pool with `amount` taken off the ticket object `id`
Decrement(pool, id, amount) ==
    [i \in 1..Len(pool) |->
        IF pool[i].id = id
        THEN [pool[i] EXCEPT !.available_amount = @ - amount]
        ELSE pool[i]]

DecrementAll_none(pool, selected) == pool

\* for tu in selected: tu.ticket.available_amount -= tu.used_amount
RECURSIVE DecrementAll(_, _)
DecrementAll(pool, selected) ==
    IF selected = <<>> THEN pool
    ELSE DecrementAll(Decrement(pool, Head(selected).ticket.id,
                                Head(selected).used_amount),
                      Tail(selected))

AllocationResult(order, selected, total_amount, bias_amount, wire_transfer_diff, ticket_count, total_score, constraints_met, warnings) ==
    [order_id |-> order.id,
     target_amount |-> order.amount,
     selected_tickets |-> selected,
     total_amount |-> total_amount,
     bias_amount |-> bias_amount,
     wire_transfer_diff |-> wire_transfer_diff,
     ticket_count |-> ticket_count,
     total_score |-> total_score,
     constraints_met |-> constraints_met,
     warnings |-> warnings]

\* best = max(scored, key=lambda x: x.total_score): the first maximal one
BestScored_last(scored) == scored[Len(scored)]

BestScored(scored) ==
    scored[ArgMaxFirst([i \in 1..Len(scored) |-> scored[i].total_score])]

\* returns [hit, result, pool, draws]; hit = FALSE is the code's None
_try_equal_match(order, tickets, ctx, pool) ==
    LET threshold == config.equal_amount_threshold
        equal_tickets ==
            SelectSeq(tickets, LAMBDA t : Abs(t.amount - order.amount) <= threshold)
        Hit(best) ==
            [hit |-> TRUE,
             result |-> AllocationResult(
                            order,
                            <<TicketUsage(best.ticket, best.ticket.amount, ROne, best, 0)>>,
                            best.ticket.amount,
                            order.amount - best.ticket.amount, 0, 1,
                            best.total_score, TRUE,
                            <<[kind |-> "equal_amount_hit", val |-> 0]>>),
             pool |-> Decrement(pool, best.ticket.id, best.ticket.amount),
             draws |-> DrawsOfList(equal_tickets, Len(equal_tickets), config)]
    IN  IF equal_tickets = <<>>
        THEN [hit |-> FALSE, pool |-> pool, draws |-> 0]
        ELSE Hit(BestScored(ScoreList(equal_tickets, order, config, ctx)))

\* the greedy loop's condition for trying a split of the ticket
SplitWanted_unconditional(available_amount, remaining_need) ==
    /\ available_amount > remaining_need
    /\ remaining_need > 0

SplitWanted(available_amount, remaining_need) ==
    /\ available_amount > remaining_need
    /\ config.split_config.allow_split
    /\ remaining_need > 0

GreedyUsage_whole(ts, remaining_need, order_index) ==
    TicketUsage(ts.ticket, Min2(ts.ticket.available_amount, ts.ticket.amount),
                Rat(Min2(ts.ticket.available_amount, ts.ticket.amount), ts.ticket.amount),
                ts, order_index)

\* the TicketUsage the greedy loop builds for the scored ticket ts
GreedyUsage(ts, remaining_need, order_index) ==
    LET t == ts.ticket
        sc == config.split_config
        available_amount == Min2(t.available_amount, t.amount)
        desired_ratio == Rat(remaining_need, t.amount)
        adjusted_ratio == RMax(sc.min_ratio, RMin(ROne, desired_ratio))
        try ==
            /\ SplitWanted(available_amount, remaining_need)
            /\ RLe(desired_ratio, ROne)
        to_use ==
            IF try /\ validate_split_constraints(t.amount, desired_ratio, config)
            THEN RWhole(RMin(RInt(t.available_amount),
                             RMul(desired_ratio, RInt(t.amount))))
            ELSE IF try /\ validate_split_constraints(t.amount, adjusted_ratio, config)
            THEN RWhole(RMin(RInt(t.available_amount),
                             RMul(adjusted_ratio, RInt(t.amount))))
            ELSE available_amount
    IN  TicketUsage(t, to_use, Rat(to_use, t.amount), ts, order_index)

\* the for loop of _build_combination from scored_tickets[i] on;
\* st = [selected, used_ids, accumulated]
RECURSIVE GreedyLoop(_, _, _, _)
GreedyLoop(st, i, order, scored_tickets) ==
    LET ts == scored_tickets[i]
        max_count == config.constraint_config.max_ticket_count
        remaining_need == order.amount - st.accumulated
        \* selected.append(tu); used_ids.add(...); accumulated += to_use
        Add(tu) ==
            [selected |-> Append(st.selected, tu),
             used_ids |-> st.used_ids \cup {ts.ticket.id},
             accumulated |-> st.accumulated + tu.used_amount]
        \* `if accumulated >= order.amount: break`
        Go(next) ==
            IF next.accumulated >= order.amount THEN next
            ELSE GreedyLoop(next, i + 1, order, scored_tickets)
    IN  IF i > Len(scored_tickets) THEN st
        ELSE IF Len(st.selected) >= max_count THEN st
        ELSE IF ts.ticket.id \in st.used_ids
             THEN GreedyLoop(st, i + 1, order, scored_tickets)
        ELSE IF ts.ticket.available_amount <= 0
             THEN GreedyLoop(st, i + 1, order, scored_tickets)
        ELSE IF remaining_need <= 0 THEN st
        ELSE Go(Add(GreedyUsage(ts, remaining_need, Len(st.selected))))

\* returns [selected, remaining]
_build_combination(order, scored_tickets, ctx) ==
    LET Remaining(used_ids) ==
            LET rest == SelectSeq(scored_tickets,
                                  LAMBDA ts : ts.ticket.id \notin used_ids)
            IN  [i \in 1..Len(rest) |-> rest[i].ticket]
        Return(st) ==
            [selected |-> st.selected, remaining |-> Remaining(st.used_ids)]
    IN  Return(GreedyLoop([selected |-> <<>>, used_ids |-> {}, accumulated |-> 0],
                          1, order, scored_tickets))

\* returns [ok, msg]
_validate_constraints_small_only(selected, order_amount) ==
    LET small == validate_small_ticket_constraint(selected, order_amount, config)
    IN  IF ~ small.ok THEN [ok |-> FALSE, msg |-> small.msg]
        ELSE [ok |-> TRUE, msg |-> <<>>]

_validate_constraints(selected, order_amount) ==
    LET small == validate_small_ticket_constraint(selected, order_amount, config)
    IN  IF ~ validate_ticket_count(selected, config)
        THEN [ok |-> FALSE, msg |-> <<[kind |-> "count_exceeded", val |-> Len(selected)]>>]
        ELSE IF ~ small.ok THEN [ok |-> FALSE, msg |-> small.msg]
        ELSE [ok |-> TRUE, msg |-> <<>>]

_create_empty_result_no_bias(order, warnings) ==
    AllocationResult(order, <<>>, 0, 0, 0, 0, RZero, FALSE,
                     Append(warnings, [kind |-> "no_available_tickets", val |-> 0]))

_create_empty_result_met(order, warnings) ==
    AllocationResult(order, <<>>, 0, order.amount, 0, 0, RZero, TRUE,
                     Append(warnings, [kind |-> "no_available_tickets", val |-> 0]))

_create_empty_result(order, warnings) ==
    AllocationResult(order, <<>>, 0, order.amount, 0, 0, RZero, FALSE,
                     Append(warnings, [kind |-> "no_available_tickets", val |-> 0]))

_build_result(order, selected, constraints_ok, warnings) ==
    LET total_used == SumSeq(UsedAmounts(selected))
        bias == order.amount - total_used
        tail_diff_threshold ==
            RMax(RInt(config.split_config.tail_diff_abs),
                 RMul(RInt(order.amount), config.split_config.tail_diff_ratio))
        wire_transfer_diff ==
            IF 0 < bias /\ RLe(RInt(bias), tail_diff_threshold) THEN bias ELSE 0
        total_score ==
            RSumSeq([i \in 1..Len(selected) |->
                        RMul(selected[i].score.total_score, selected[i].split_ratio)])
    IN  AllocationResult(order, selected, total_used, bias, wire_transfer_diff,
                         Len(selected), total_score, constraints_ok, warnings)

\* one call of allocate on the pool: [result, pool, draws] and, for the
\* record, adjust: <<[entry, passes]>>, what the call's adjust_with_split was
\* given and how many passes it made (None when the call returned before it)
allocate(order, pool) ==
    LET filtered ==
            SelectSeq(pool, LAMBDA t : validate_ticket_filter(t, config)
                                       /\ t.available_amount > 0)
        \* steps 8 to 10: decrement the pool, validate, build the result
        Validated(adj, check, ctx3) ==
            [result |-> _build_result(order, adj.selected, check.ok,
                                      adj.warnings \o check.msg),
             pool |-> DecrementAll(pool, adj.selected),
             draws |-> ctx3.randomness.calls - rng.calls + adj.draws,
             adjust |-> <<[entry |-> adj.entry, passes |-> adj.passes,
                           reduce |-> adj.reduce]>>]
        Adjusted(adj, ctx3) ==
            Validated(adj, _validate_constraints(adj.selected, order.amount), ctx3)
        \* step 7: the splitter on the greedy combination
        Combined(comb, ctx3) ==
            Adjusted(adjust_with_split(comb.selected, comb.remaining, order,
                                       config, ctx3),
                     ctx3)
        \* step 5: scored.sort(key=total_score, reverse=True); step 6: greedy
        Scored(unsorted, ctx3) ==
            LET perm == SortDescIdx([i \in 1..Len(unsorted) |->
                                        unsorted[i].total_score])
            IN  Combined(_build_combination(
                             order, [i \in 1..Len(unsorted) |-> unsorted[perm[i]]],
                             ctx3),
                         ctx3)
        \* step 4: score every filtered ticket
        Score(ctx2) ==
            Scored(ScoreList(filtered, order, config, ctx2),
                   Advance(ctx2, DrawsOfList(filtered, Len(filtered), config)))
        \* step 3: the equal-amount shortcut, when it is switched on
        Equal(equal_result, ctx) ==
            IF equal_result.hit
            THEN [result |-> equal_result.result, pool |-> equal_result.pool,
                  draws |-> equal_result.draws, adjust |-> None]
            ELSE Score(Advance(ctx, equal_result.draws))
        \* step 2 on: with the scoring context
        Context(ctx) ==
            Equal(IF config.equal_amount_first
                  THEN _try_equal_match(order, filtered, ctx, pool)
                  ELSE [hit |-> FALSE, pool |-> pool, draws |-> 0],
                  ctx)
    IN  IF filtered = <<>>
        THEN [result |-> _create_empty_result(order, <<>>), pool |-> pool,
              draws |-> 0, adjust |-> None]
        ELSE Context(_build_context(filtered, rng))

-----------------------------------------------------------------------------
(* utils.py *)

\* float('inf')
Infinity == 1000000

classify_ticket_amount_medium_first(amount, alc) ==
    IF alc.medium_range[1] <= amount /\ amount < alc.medium_range[2] THEN MEDIUM
    ELSE IF alc.large_range[1] <= amount /\ amount < alc.large_range[2] THEN LARGE
    ELSE IF alc.small_range[1] <= amount /\ amount < alc.small_range[2] THEN SMALL
    ELSE IF amount >= alc.large_range[1] THEN LARGE
    ELSE SMALL

classify_ticket_amount(amount, alc) ==
    IF alc.large_range[1] <= amount /\ amount < alc.large_range[2] THEN LARGE
    ELSE IF alc.medium_range[1] <= amount /\ amount < alc.medium_range[2] THEN MEDIUM
    ELSE IF alc.small_range[1] <= amount /\ amount < alc.small_range[2] THEN SMALL
    ELSE IF amount >= alc.large_range[1] THEN LARGE
    ELSE SMALL

\* Ticket(...) as create_tickets_from_data builds it; __post_init__ sets
\* available_amount = amount
Ticket(id, amount, maturity_days, acceptor_class, organization, alc) ==
    [id |-> id,
     amount |-> amount,
     maturity_days |-> maturity_days,
     acceptor_class |-> acceptor_class,
     amount_label |-> classify_ticket_amount(amount, alc),
     organization |-> organization,
     available_amount |-> amount]

PaymentOrder(id, amount, organization, priority) ==
    [id |-> id, amount |-> amount, organization |-> organization,
     priority |-> priority]

-----------------------------------------------------------------------------
(* Bounds of the model: the inputs the engine is run on *)

MaxPool == 2            \* tickets in the pool
MaxBatch == 2           \* orders in one allocate_batch call
MaxCalls == 2           \* direct allocate calls
MaxTicketCount == 2     \* largest max_ticket_count

TicketAmounts == {4, 6, 10}
OrderAmounts == {5, 10}
MaturityDays == {60, 120}

\* the defaults of models.py, with amounts in units of 100,000, the tail
\* difference switched off and min_use = min_remain = 3 units
DefaultConfig ==
    [amount_label_config |->
        [large_range |-> <<10, Infinity>>,
         medium_range |-> <<5, 10>>,
         small_range |-> <<0, 5>>,
         large_ratio |-> Rat(5, 10),
         medium_ratio |-> Rat(3, 10),
         small_ratio |-> Rat(2, 10)],
     weight_config |->
        [w_maturity |-> Rat(1, 4),
         w_acceptor |-> Rat(1, 4),
         w_amount |-> Rat(1, 4),
         w_organization |-> Rat(1, 4),
         maturity_strategy |-> "FAR_FIRST",
         maturity_threshold |-> 90,
         acceptor_strategy |-> "BAD_FIRST",
         acceptor_class_count |-> 5,
         amount_strategy |-> "OPTIMIZE_INVENTORY",
         amount_sub_strategy |-> "None",
         organization_strategy |-> "SAME_ORG"],
     split_config |->
        [allow_split |-> TRUE,
         tail_diff_abs |-> 0,
         tail_diff_ratio |-> RZero,
         min_remain |-> 3,
         min_use |-> 3,
         min_ratio |-> Rat(1, 2),
         split_strategy |-> "BY_AMOUNT_CLOSE",
         split_condition_unlimited |-> FALSE],
     constraint_config |->
        [max_ticket_count |-> MaxTicketCount,
         small_ticket_limited |-> FALSE,
         small_ticket_80pct_amount_coverage |-> Rat(1, 2),
         allowed_maturity_days |-> None,
         allowed_amount_range |-> None,
         allowed_acceptor_classes |-> None],
     equal_amount_first |-> FALSE,
     equal_amount_threshold |-> 1,
     \* Python's types of the values: amounts are Decimal when the tickets
     \* come from create_tickets_from_data, the label ratios are whatever the
     \* caller passed
     number_kinds |-> [amount |-> "Decimal", ratio |-> "Decimal"]]

SplitStrategies == {"BY_MATURITY", "BY_ACCEPTOR_CLASS", "BY_AMOUNT_LARGE", "BY_AMOUNT_CLOSE"}

\* the split rules: every combination of the three minima and the tail
\* difference, splitting allowed
SplitRuleConfigs ==
    {[DefaultConfig EXCEPT
        !.constraint_config.max_ticket_count = m,
        !.split_config.min_use = mu,
        !.split_config.min_remain = mr,
        !.split_config.min_ratio = r,
        !.split_config.tail_diff_abs = td] :
        m \in 1..MaxTicketCount, mu \in {0, 3}, mr \in {0, 3},
        r \in {RZero, Rat(1, 2)}, td \in {0, 1}}

\* every split strategy, with and without the wire-transfer acceptance
SplitStrategyConfigs ==
    {[DefaultConfig EXCEPT
        !.constraint_config.max_ticket_count = m,
        !.split_config.split_strategy = ss,
        !.split_config.tail_diff_abs = 1,
        !.split_config.split_condition_unlimited = u] :
        m \in 1..MaxTicketCount, ss \in SplitStrategies, u \in BOOLEAN}

\* splitting forbidden
NoSplitConfigs ==
    {[DefaultConfig EXCEPT
        !.constraint_config.max_ticket_count = m,
        !.split_config.allow_split = FALSE,
        !.split_config.tail_diff_abs = td,
        !.equal_amount_first = e] :
        m \in 1..MaxTicketCount, td \in {0, 1}, e \in BOOLEAN}

\* the equal-amount shortcut together with splitting
EqualFirstConfigs ==
    {[DefaultConfig EXCEPT
        !.constraint_config.max_ticket_count = m,
        !.split_config.min_ratio = r,
        !.split_config.min_remain = mr,
        !.equal_amount_first = TRUE,
        !.equal_amount_threshold = th] :
        m \in 1..MaxTicketCount, r \in {RZero, Rat(1, 2)}, mr \in {0, 3},
        th \in {0, 1}}

\* the pre-filter and the small-ticket rule
FilterConfigs ==
    {[DefaultConfig EXCEPT
        !.constraint_config.allowed_maturity_days = md,
        !.constraint_config.allowed_amount_range = ar,
        !.constraint_config.allowed_acceptor_classes = ac,
        !.constraint_config.small_ticket_limited = sl] :
        md \in {None, <<90, 180>>}, ar \in {None, <<4, 6>>},
        ac \in {None, <<{2}>>}, sl \in BOOLEAN}

\* a tail difference that is a share of the order amount
TailRatioConfigs ==
    {[DefaultConfig EXCEPT
        !.constraint_config.max_ticket_count = m,
        !.split_config.tail_diff_ratio = tr,
        !.split_config.min_remain = mr,
        !.split_config.split_condition_unlimited = u] :
        m \in 1..MaxTicketCount, tr \in {Rat(1, 5), Rat(2, 5)}, mr \in {0, 3},
        u \in BOOLEAN}

CoreConfigs ==
    SplitRuleConfigs \cup SplitStrategyConfigs \cup NoSplitConfigs
        \cup EqualFirstConfigs \cup FilterConfigs \cup TailRatioConfigs

RECURSIVE SeqsUpTo(_, _)
SeqsUpTo(S, n) ==
    IF n = 0 THEN {<<>>}
    ELSE LET shorter == SeqsUpTo(S, n - 1)
         IN  shorter \cup {Append(q, x) : q \in {p \in shorter : Len(p) = n - 1}, x \in S}

TicketKinds == TicketAmounts \X MaturityDays

\* pools of at most MaxPool fresh tickets, ids 1, 2, ... in pool order
Pools(cfg) ==
    {[i \in 1..Len(ks) |->
        Ticket(i, ks[i][1], ks[i][2], 1, "A", cfg.amount_label_config)] :
        ks \in SeqsUpTo(TicketKinds, MaxPool)}

\* the order lists a caller may pass to allocate_batch, ids in input order,
\* all of one priority
PlainBatches ==
    {[i \in 1..Len(ks) |-> PaymentOrder(i, ks[i], "A", 0)] :
        ks \in SeqsUpTo(OrderAmounts, MaxBatch) \ {<<>>}}

\* the orders a caller may pass to allocate directly
SingleOrders == {PaymentOrder(0, a, "A", 0) : a \in OrderAmounts}

-----------------------------------------------------------------------------
(* The engine and its callers *)

\* the threads of the caller
Threads == {1, 2}

\* Starts: the <<config, ticket pool>> pairs an engine may be built with
InitWith(Starts) ==
    /\ \E s \in Starts : config = s[1] /\ ticket_pool = s[2]
    /\ rng = [seed |-> 0, calls |-> 0]
    /\ orders = <<>>
    /\ orders_sorted = <<>>
    /\ results = <<>>
    /\ pc = "idle"
    /\ calls = <<>>
    /\ inflight = [t \in Threads |-> None]
    /\ engine = 1

Init == InitWith(UNION {{<<c, p>> : p \in Pools(c)} : c \in CoreConfigs})

\* what the allocate call with outcome r does to the engine, the pool and
\* the history
AllocateEffect(order, r) ==
    /\ ticket_pool' = r.pool
    /\ rng' = [rng EXCEPT !.calls = @ + r.draws]
    /\ calls' = Append(calls, [order |-> order, rng |-> rng, before |-> ticket_pool,
                               result |-> r.result, after |-> r.pool,
                               adjust |-> r.adjust, engine |-> engine])

\* a caller calls engine.allocate(order, ticket_pool), at most limit times
Allocate(order, limit) ==
    /\ pc = "idle"
    /\ Len(calls) < limit
    /\ AllocateEffect(order, allocate(order, ticket_pool))
    /\ UNCHANGED <<config, orders, orders_sorted, results, pc, inflight, engine>>

\* result = self.allocate(order, ticket_pool); results.append(result)
BatchEffect(order, r) ==
    /\ AllocateEffect(order, r)
    /\ results' = Append(results, r.result)

SortByPriority_ascending(os) ==
    LET perm == SortAscIdx([i \in 1..Len(os) |-> os[i].priority])
    IN  [i \in 1..Len(os) |-> os[perm[i]]]

\* sorted(orders, key=priority, reverse=True)
SortByPriority_unsorted(os) == os

SortByPriority(os) ==
    LET perm == SortDescIdx([i \in 1..Len(os) |-> RInt(os[i].priority)])
    IN  [i \in 1..Len(os) |-> os[perm[i]]]

\* a caller calls engine.allocate_batch(os, ticket_pool) on a fresh engine:
\* up to the loop
AllocateBatch(os) ==
    /\ pc = "idle"
    /\ calls = <<>>
    /\ orders' = os
    /\ orders_sorted' = SortByPriority(os)
    /\ results' = <<>>
    /\ pc' = "batch"
    /\ UNCHANGED <<config, rng, ticket_pool, calls, inflight, engine>>

\* one pass of allocate_batch's loop
BatchStep ==
    /\ pc = "batch"
    /\ Len(results) < Len(orders_sorted)
    /\ BatchEffect(orders_sorted[Len(results) + 1],
                   allocate(orders_sorted[Len(results) + 1], ticket_pool))
    /\ UNCHANGED <<config, orders, orders_sorted, pc, inflight, engine>>

\* allocate_batch returns results
BatchReturn ==
    /\ pc = "batch"
    /\ Len(results) = Len(orders_sorted)
    /\ pc' = "returned"
    /\ UNCHANGED <<config, rng, ticket_pool, orders, orders_sorted, results, calls, inflight, engine>>

Step(Singles, limit, Batches) ==
    \/ \E order \in Singles : Allocate(order, limit)
    \/ \E os \in Batches : AllocateBatch(os)
    \/ BatchStep
    \/ BatchReturn

Next == Step(SingleOrders, MaxCalls, PlainBatches)

Spec == Init /\ [][Next]_vars

-----------------------------------------------------------------------------
(* Long histories: more calls on a larger pool, fewer configurations *)

DeepPool == 3           \* tickets in the pool
DeepCalls == 4          \* direct allocate calls

DeepOrderAmounts == {2, 5}

\* splitting with no minimum use and no minimum ratio
DeepConfigs ==
    {[DefaultConfig EXCEPT
        !.constraint_config.max_ticket_count = m,
        !.split_config.min_use = 0,
        !.split_config.min_ratio = RZero,
        !.split_config.min_remain = mr,
        !.split_config.split_strategy = ss] :
        m \in 1..MaxTicketCount, mr \in {3, 5},
        ss \in {"BY_MATURITY", "BY_AMOUNT_CLOSE"}}

\* pools of at most DeepPool fresh tickets of one maturity
DeepPools(cfg) ==
    {[i \in 1..Len(ks) |->
        Ticket(i, ks[i], 60, 1, "A", cfg.amount_label_config)] :
        ks \in SeqsUpTo(TicketAmounts, DeepPool)}

DeepOrders == {PaymentOrder(0, a, "A", 0) : a \in DeepOrderAmounts}

DeepBatches ==
    {[i \in 1..Len(ks) |-> PaymentOrder(i, ks[i], "A", 0)] :
        ks \in SeqsUpTo(DeepOrderAmounts, MaxBatch) \ {<<>>}}

InitDeep == InitWith(UNION {{<<c, p>> : p \in DeepPools(c)} : c \in DeepConfigs})

NextDeep == Step(DeepOrders, DeepCalls, DeepBatches)

SpecDeep == InitDeep /\ [][NextDeep]_vars

-----------------------------------------------------------------------------
(* Batches of orders with different priorities *)

PriorityBatch == 3      \* orders in one allocate_batch call

Priorities == {1, 2}

PriorityConfigs ==
    {[DefaultConfig EXCEPT !.equal_amount_first = e] : e \in BOOLEAN}

\* order lists with ids in input order and any priorities
PriorityBatches ==
    {[i \in 1..Len(ks) |-> PaymentOrder(i, ks[i][1], "A", ks[i][2])] :
        ks \in SeqsUpTo(OrderAmounts \X Priorities, PriorityBatch) \ {<<>>}}

InitBatch == InitWith(UNION {{<<c, p>> : p \in Pools(c)} : c \in PriorityConfigs})

NextBatch == Step(SingleOrders, MaxCalls, PriorityBatches)

SpecBatch == InitBatch /\ [][NextBatch]_vars

-----------------------------------------------------------------------------
(* Seeded engines: the random amount strategies, and engines built one after
   the other with a seed, each given a fresh copy of the pool *)

MaxEngines == 2         \* engines built

Seeds == {0, 1, 2}

\* random.Random(seed)
Random(seed) == [seed |-> seed, calls |-> 0]

\* the strategies that draw from the generator, and the sorted ones
RandomConfigs ==
    {[DefaultConfig EXCEPT
        !.constraint_config.max_ticket_count = m,
        !.weight_config.amount_strategy = as,
        !.weight_config.amount_sub_strategy = sub,
        !.split_config.min_use = 0,
        !.split_config.min_remain = 0,
        !.split_config.min_ratio = RZero,
        !.split_config.split_strategy = ss] :
        m \in 1..MaxTicketCount, as \in {"RANDOM", "LARGE_FIRST", "SMALL_FIRST"},
        sub \in {"SORTED", "RANDOM"}, ss \in {"BY_MATURITY", "BY_AMOUNT_CLOSE"}}

InitRandom ==
    /\ config \in RandomConfigs
    /\ ticket_pool \in Pools(config)
    /\ \E seed \in Seeds : rng = Random(seed)
    /\ orders = <<>>
    /\ orders_sorted = <<>>
    /\ results = <<>>
    /\ pc = "idle"
    /\ calls = <<>>
    /\ inflight = [t \in Threads |-> None]
    /\ engine = 1

\* a copy of the pool as it was loaded: available_amount = amount
FreshCopy(pool) ==
    [i \in 1..Len(pool) |-> [pool[i] EXCEPT !.available_amount = pool[i].amount]]

\* the caller builds AllocationEngine(config, seed) and loads the pool anew
NewEngine(seed) ==
    /\ pc = "idle"
    /\ engine < MaxEngines
    /\ engine' = engine + 1
    /\ rng' = Random(seed)
    /\ ticket_pool' = FreshCopy(ticket_pool)
    /\ UNCHANGED <<config, orders, orders_sorted, results, pc, calls, inflight>>

NextRandomSpec ==
    \/ \E order \in SingleOrders : Allocate(order, MaxCalls)
    \/ \E seed \in Seeds : NewEngine(seed)

SpecRandom == InitRandom /\ [][NextRandomSpec]_vars

-----------------------------------------------------------------------------
(* Orders far larger than the pool: the splitter runs out of passes *)

CapOrderAmounts == {30, 60}

\* splitting with no minimum
CapConfigs ==
    {[DefaultConfig EXCEPT
        !.constraint_config.max_ticket_count = m,
        !.split_config.min_use = 0,
        !.split_config.min_remain = 0,
        !.split_config.min_ratio = RZero,
        !.split_config.tail_diff_abs = td,
        !.split_config.split_strategy = ss] :
        m \in 1..MaxTicketCount, td \in {0, 1}, ss \in SplitStrategies}

CapOrders == {PaymentOrder(0, a, "A", 0) : a \in CapOrderAmounts \cup OrderAmounts}

CapBatches ==
    {[i \in 1..Len(ks) |-> PaymentOrder(i, ks[i], "A", 0)] :
        ks \in SeqsUpTo(CapOrderAmounts, MaxBatch) \ {<<>>}}

InitCap == InitWith(UNION {{<<c, p>> : p \in Pools(c)} : c \in CapConfigs})

NextCap == Step(CapOrders, MaxCalls, CapBatches)

SpecCap == InitCap /\ [][NextCap]_vars

-----------------------------------------------------------------------------
(* The small-ticket rule, with tickets of 4 and of 6 both labelled SMALL *)

SmallRuleConfigs ==
    {[DefaultConfig EXCEPT
        !.amount_label_config.small_range = <<0, 7>>,
        !.amount_label_config.medium_range = <<7, 10>>,
        !.constraint_config.max_ticket_count = m,
        !.constraint_config.small_ticket_limited = sl,
        !.constraint_config.small_ticket_80pct_amount_coverage = cov,
        !.split_config.min_use = mu,
        !.split_config.min_remain = mu] :
        m \in 1..MaxTicketCount, sl \in BOOLEAN, cov \in {Rat(1, 2), ROne},
        mu \in {0, 3}}

\* enough bills for the first 80% of the SMALL ones to leave one out
SmallPool == 5

SmallOrderAmounts == {10, 20}

\* pools of SmallPool fresh SMALL tickets of 4 or 6, under a cap that admits
\* them all
SmallStarts ==
    {<<[c EXCEPT !.constraint_config.max_ticket_count = SmallPool],
       [i \in 1..SmallPool |-> Ticket(i, ks[i], 60, 1, "A", c.amount_label_config)]>> :
        c \in SmallRuleConfigs, ks \in [1..SmallPool -> {4, 6}]}

SmallOrders == {PaymentOrder(0, a, "A", 0) : a \in SmallOrderAmounts}

SmallBatches ==
    {[i \in 1..Len(ks) |-> PaymentOrder(i, ks[i], "A", 0)] :
        ks \in SeqsUpTo(SmallOrderAmounts, MaxBatch) \ {<<>>}}

InitSmall ==
    InitWith(SmallStarts \cup UNION {{<<c, p>> : p \in Pools(c)} : c \in SmallRuleConfigs})

NextSmall == Step(SmallOrders, MaxCalls, SmallBatches)

SpecSmall == InitSmall /\ [][NextSmall]_vars

-----------------------------------------------------------------------------
(* The weights and strategies of the scorer *)

\* weights of 0, 1/2 and 1 on two dimensions, the other two at 1/4
WeightConfigs ==
    {[DefaultConfig EXCEPT
        !.weight_config.w_maturity = wm,
        !.weight_config.w_amount = wa,
        !.weight_config.maturity_strategy = ms,
        !.weight_config.maturity_threshold = th,
        !.weight_config.amount_strategy = as,
        !.weight_config.amount_sub_strategy = "SORTED"] :
        wm \in {RZero, Rat(1, 2), ROne}, wa \in {RZero, Rat(1, 2), ROne},
        ms \in {"FAR_FIRST", "NEAR_FIRST"}, th \in {60, 90},
        as \in {"LARGE_FIRST", "LESS_THAN_ORDER", "OPTIMIZE_INVENTORY"}}

InitWeights == InitWith(UNION {{<<c, p>> : p \in Pools(c)} : c \in WeightConfigs})

NextWeights == Step(SingleOrders, MaxCalls, PlainBatches)

SpecWeights == InitWeights /\ [][NextWeights]_vars

-----------------------------------------------------------------------------
(* Building the pool: create_tickets_from_data labels every ticket *)

ClassifyPool == 2

ClassifyAmounts == 0..10

\* AmountLabelConfig() in units of 100000: large [1000000, inf), medium
\* [100000, 1000000), small [0, 100000)
DefaultLabels ==
    [DefaultConfig.amount_label_config EXCEPT
        !.large_range = <<10, Infinity>>,
        !.medium_range = <<1, 10>>,
        !.small_range = <<0, 1>>]

\* ranges that overlap, leave gaps, or are contiguous
LabelConfigs ==
    {DefaultLabels} \cup
    {[DefaultConfig.amount_label_config EXCEPT
        !.large_range = lr, !.medium_range = mr, !.small_range = sr] :
        lr \in {<<6, Infinity>>, <<6, 8>>, <<4, 8>>},
        mr \in {<<2, 6>>, <<3, 5>>, <<2, 7>>},
        sr \in {<<0, 2>>, <<1, 3>>, <<0, 4>>}}

InitClassify ==
    InitWith({<<[DefaultConfig EXCEPT !.amount_label_config = alc], <<>>>> :
                 alc \in LabelConfigs})

\* one pass of the loop of create_tickets_from_data
CreateTicket(amount, maturity_days) ==
    /\ pc = "idle"
    /\ calls = <<>>
    /\ Len(ticket_pool) < ClassifyPool
    /\ ticket_pool' =
          Append(ticket_pool,
                 Ticket(Len(ticket_pool) + 1, amount, maturity_days, 1, "A",
                        config.amount_label_config))
    /\ UNCHANGED <<config, rng, orders, orders_sorted, results, pc, calls, inflight, engine>>

NextClassify == \E amount \in ClassifyAmounts : CreateTicket(amount, 60)

SpecClassify == InitClassify /\ [][NextClassify]_vars

-----------------------------------------------------------------------------
(* The OPTIMIZE_INVENTORY scorer on its own, for ratios and amounts of either
   Python type.  The engine specifications above run with Decimal amounts and
   Decimal ratios, for which the scorer does not raise. *)

InventoryScores == 2

NumberKinds == {"Decimal", "float"}

\* expected shares: the defaults, shares no label exceeds, and shares that
\* favour SMALL
InventoryRatios ==
    {<<Rat(5, 10), Rat(3, 10), Rat(2, 10)>>, <<ROne, ROne, ROne>>,
     <<Rat(1, 5), Rat(1, 5), Rat(3, 5)>>}

InventoryConfigs ==
    {[DefaultConfig EXCEPT
        !.amount_label_config.large_ratio = er[1],
        !.amount_label_config.medium_ratio = er[2],
        !.amount_label_config.small_ratio = er[3],
        !.number_kinds = [amount |-> ak, ratio |-> rk]] :
        er \in InventoryRatios, ak \in NumberKinds, rk \in NumberKinds}

InitInventory ==
    InitWith(UNION {{<<c, p>> : p \in Pools(c) \ {<<>>}} : c \in InventoryConfigs})

\* _score_amount(ticket, order, config, ctx) for ticket_pool[i], with the
\* context of the whole pool; what it returned, or that it raised
ScoreAmount(i, order) ==
    LET ctx == _build_context(ticket_pool, rng)
        raises == _score_optimize_inventory_raises(config, ctx)
    IN  /\ pc = "idle"
        /\ Len(results) < InventoryScores
        /\ results' =
              Append(results,
                     [ticket |-> ticket_pool[i],
                      raised |-> raises,
                      score |-> IF raises THEN None
                                ELSE <<_score_amount(ticket_pool[i], order, config, ctx)>>])
        /\ UNCHANGED <<config, rng, ticket_pool, orders, orders_sorted, pc, calls, inflight, engine>>

NextInventory ==
    \E i \in 1..Len(ticket_pool) : ScoreAmount(i, PaymentOrder(0, 5, "A", 0))

SpecInventory == InitInventory /\ [][NextInventory]_vars

-----------------------------------------------------------------------------
(* The same orders under split_condition_unlimited false and true: a second
   engine is built with the flag turned over and the pool loaded anew *)

FlagCalls == 4

FlagConfigs ==
    {[DefaultConfig EXCEPT
        !.constraint_config.max_ticket_count = m,
        !.split_config.tail_diff_abs = td,
        !.split_config.min_use = mu,
        !.split_config.min_remain = mu,
        !.split_config.split_condition_unlimited = u] :
        m \in 1..MaxTicketCount, td \in {0, 1, 2}, mu \in {0, 3}, u \in BOOLEAN}

InitFlag == InitWith(UNION {{<<c, p>> : p \in Pools(c)} : c \in FlagConfigs})

\* AllocationEngine(config', seed) with config' = config but for the flag, on
\* a fresh copy of the pool
OtherFlag ==
    /\ pc = "idle"
    /\ calls # <<>>
    /\ engine < MaxEngines
    /\ engine' = engine + 1
    /\ config' = [config EXCEPT !.split_config.split_condition_unlimited = ~ @]
    /\ rng' = Random(rng.seed)
    /\ ticket_pool' = FreshCopy(ticket_pool)
    /\ UNCHANGED <<orders, orders_sorted, results, pc, calls, inflight>>

NextFlag ==
    \/ \E order \in SingleOrders : Allocate(order, FlagCalls)
    \/ OtherFlag

SpecFlag == InitFlag /\ [][NextFlag]_vars

-----------------------------------------------------------------------------
(* Two threads of one caller on the same engine and pool.  allocate takes no
   lock; a thread may be descheduled between any two statements.  A call is
   two steps here: lines 67-98 (filter, score, combine, adjust), which read
   the pool, and lines 101-115, which write it. *)

ThreadCalls == 2        \* allocate calls the threads issue together

\* splitting and the equal-amount shortcut off: one call after the other
\* takes every ticket whole and at most once
ThreadConfigs ==
    {[DefaultConfig EXCEPT
        !.constraint_config.max_ticket_count = m,
        !.split_config.allow_split = FALSE,
        !.split_config.tail_diff_abs = td] :
        m \in 1..MaxTicketCount, td \in {0, 1}}

InitThreads == InitWith(UNION {{<<c, p>> : p \in Pools(c)} : c \in ThreadConfigs})

\* thread t calls engine.allocate(order, ticket_pool) and runs it up to the
\* pool mutation; r is what the call computes from the pool it reads
Select(t, order) ==
    /\ pc = "idle"
    /\ inflight[t] = None
    /\ Len(calls) + Cardinality({u \in Threads : inflight[u] # None}) < ThreadCalls
    /\ inflight' = [inflight EXCEPT ![t] =
                       <<[order |-> order, rng |-> rng, before |-> ticket_pool,
                          r |-> allocate(order, ticket_pool)]>>]
    /\ rng' = [rng EXCEPT !.calls = @ + inflight'[t][1].r.draws]
    /\ UNCHANGED <<config, ticket_pool, orders, orders_sorted, results, pc, calls, engine>>

\* thread t runs the rest of its call: the decrements of its usages on the
\* pool as it is now, then the result
Commit(t) ==
    /\ inflight[t] # None
    /\ ticket_pool' = DecrementAll(ticket_pool, inflight[t][1].r.result.selected_tickets)
    /\ calls' = Append(calls, [order |-> inflight[t][1].order,
                               rng |-> inflight[t][1].rng,
                               before |-> inflight[t][1].before,
                               result |-> inflight[t][1].r.result,
                               after |-> ticket_pool',
                               adjust |-> inflight[t][1].r.adjust,
                               engine |-> engine])
    /\ inflight' = [inflight EXCEPT ![t] = None]
    /\ UNCHANGED <<config, rng, orders, orders_sorted, results, pc, engine>>

NextThreads ==
    \/ \E t \in Threads, order \in SingleOrders : Select(t, order)
    \/ \E t \in Threads : Commit(t)

SpecThreads == InitThreads /\ [][NextThreads]_vars

-----------------------------------------------------------------------------
(* Properties *)

Calls == 1..Len(calls)
Usages(k) == calls[k].result.selected_tickets
MaxCount == config.constraint_config.max_ticket_count
HasWarning(r, kind) == \E i \in 1..Len(r.warnings) : r.warnings[i].kind = kind

\* what allocate's first step keeps of a pool
Filtered(pool) ==
    SelectSeq(pool, LAMBDA t : validate_ticket_filter(t, config)
                               /\ t.available_amount > 0)

\* the amount of ticket id that the usages of call k take together
UsedOf(k, id) ==
    SumSeq([i \in 1..Len(Usages(k)) |->
               IF Usages(k)[i].ticket.id = id THEN Usages(k)[i].used_amount ELSE 0])

\* C1: after any sequence of allocate calls on a pool that starts full, every
\* ticket has 0 <= available_amount <= amount.
C1_AvailableWithinFace ==
    \A i \in 1..Len(ticket_pool) :
        /\ 0 <= ticket_pool[i].available_amount
        /\ ticket_pool[i].available_amount <= ticket_pool[i].amount

\* C2: every result has ticket_count <= max_ticket_count.
C2_CountWithinCap ==
    \A k \in Calls : calls[k].result.ticket_count <= MaxCount

\* C3: every result either selects at most max_ticket_count tickets or has
\* constraints_met = false and carries the count-cap warning.
C3_CapOrFlagged ==
    \A k \in Calls :
        \/ Len(Usages(k)) <= MaxCount
        \/ /\ ~ calls[k].result.constraints_met
           /\ HasWarning(calls[k].result, "count_exceeded")

C3_Witness ==
    \E k \in Calls :
        /\ Len(Usages(k)) > MaxCount
        /\ ~ calls[k].result.constraints_met
        /\ HasWarning(calls[k].result, "count_exceeded")

\* C4: every usage of every result has 0 < used_amount <= ticket.amount and
\* split_ratio * ticket.amount = used_amount.
C4_UsageWellFormed ==
    \A k \in Calls : \A i \in 1..Len(Usages(k)) :
        LET tu == Usages(k)[i]
        IN  /\ 0 < tu.used_amount
            /\ tu.used_amount <= tu.ticket.amount
            /\ RMul(tu.split_ratio, RInt(tu.ticket.amount)) = RInt(tu.used_amount)

\* C5: in every result total_amount is the sum of the used amounts,
\* bias_amount = target_amount - total_amount and ticket_count is the number
\* of usages.
C5_TotalsConsistent ==
    \A k \in Calls :
        LET r == calls[k].result
        IN  /\ r.total_amount = SumSeq(UsedAmounts(r.selected_tickets))
            /\ r.target_amount = calls[k].order.amount
            /\ r.bias_amount = r.target_amount - r.total_amount
            /\ r.ticket_count = Len(r.selected_tickets)

\* a call on the normal path returned two usages and a residual bias, and
\* the call after it found every ticket exhausted and took the empty path
C5_Witness ==
    /\ Len(calls) = 2
    /\ Len(Usages(1)) = 2
    /\ calls[1].result.bias_amount # 0
    /\ ~ HasWarning(calls[1].result, "equal_amount_hit")
    /\ HasWarning(calls[2].result, "no_available_tickets")

\* C6: with allow_split false every usage has split_ratio 1 and takes the
\* whole face amount, and every ticket of the pool is either fully available
\* or fully consumed.
C6_NoSplitWhole ==
    ~ config.split_config.allow_split =>
        /\ \A k \in Calls : \A i \in 1..Len(Usages(k)) :
              /\ Usages(k)[i].split_ratio = ROne
              /\ Usages(k)[i].used_amount = Usages(k)[i].ticket.amount
        /\ \A i \in 1..Len(ticket_pool) :
              ticket_pool[i].available_amount \in {0, ticket_pool[i].amount}

\* splitting is off, a ticket larger than the need was taken whole, and a
\* second call took another ticket
C6_Witness ==
    /\ ~ config.split_config.allow_split
    /\ Len(calls) = 2
    /\ Usages(1) # <<>>
    /\ Usages(2) # <<>>
    /\ calls[1].result.total_amount > calls[1].order.amount

\* the filtered tickets of call k within the equal-amount threshold
WithinThreshold(k) ==
    SelectSeq(Filtered(calls[k].before),
              LAMBDA t : Abs(t.amount - calls[k].order.amount)
                             <= config.equal_amount_threshold)

\* their scores, as the call computes them
WithinScores(k) ==
    ScoreList(WithinThreshold(k), calls[k].order, config,
              _build_context(Filtered(calls[k].before), calls[k].rng))

\* C7: when equal_amount_first is on and a filtered ticket is within the
\* threshold of the order amount, the result is exactly one usage of a
\* within-threshold ticket whose total score is at least that of every
\* within-threshold ticket, with split_ratio 1, used_amount = amount and
\* constraints_met; its only warning is the shortcut's and only that ticket
\* is decremented (greedy and splitter have not run).
C7_EqualShortcut ==
    \A k \in Calls :
        (config.equal_amount_first /\ WithinThreshold(k) # <<>>) =>
            /\ Len(Usages(k)) = 1
            /\ calls[k].result.ticket_count = 1
            /\ LET u == Usages(k)[1]
               IN  /\ \E i \in 1..Len(WithinThreshold(k)) :
                         WithinThreshold(k)[i].id = u.ticket.id
                   /\ Abs(u.ticket.amount - calls[k].order.amount)
                         <= config.equal_amount_threshold
                   /\ \A i \in 1..Len(WithinThreshold(k)) :
                         RGe(u.score.total_score, WithinScores(k)[i].total_score)
                   /\ u.split_ratio = ROne
                   /\ u.used_amount = u.ticket.amount
                   /\ calls[k].after =
                         Decrement(calls[k].before, u.ticket.id, u.ticket.amount)
            /\ calls[k].result.constraints_met
            /\ calls[k].result.warnings = <<[kind |-> "equal_amount_hit", val |-> 0]>>

\* the shortcut chose between two within-threshold tickets of different
\* scores, and the better one was not the last
C7_Witness ==
    \E k \in Calls :
        /\ config.equal_amount_first
        /\ Len(WithinThreshold(k)) = 2
        /\ RGt(WithinScores(k)[1].total_score, WithinScores(k)[2].total_score)
        /\ Len(Usages(k)) = 1
        /\ Usages(k)[1].ticket.id = WithinThreshold(k)[1].id

\* C8: when no ticket of the pool passes the filter with a positive
\* available amount, the result has no usage, ticket_count 0, total_amount 0,
\* bias_amount = order.amount, constraints_met false and a warning, and the
\* pool is left as it was.
C8_EmptyResult ==
    \A k \in Calls :
        Filtered(calls[k].before) = <<>> =>
            /\ Usages(k) = <<>>
            /\ calls[k].result.ticket_count = 0
            /\ calls[k].result.total_amount = 0
            /\ calls[k].result.bias_amount = calls[k].order.amount
            /\ ~ calls[k].result.constraints_met
            /\ calls[k].result.warnings # <<>>
            /\ calls[k].after = calls[k].before

\* a call on a pool whose tickets pass the filter but are all exhausted
C8_Witness ==
    \E k \in Calls :
        /\ calls[k].before # <<>>
        /\ \A i \in 1..Len(calls[k].before) :
              /\ validate_ticket_filter(calls[k].before[i], config)
              /\ calls[k].before[i].available_amount <= 0
        /\ calls[k].result.ticket_count = 0
        /\ ~ calls[k].result.constraints_met

\* C9: allocate_batch processes the orders by non-increasing priority,
\* orders of equal priority in input order, each order once, and returns one
\* result per input order (the k-th result is that of the k-th processed
\* order).  Order ids are the positions in the input list.
C9_BatchOrder ==
    pc \in {"batch", "returned"} =>
        /\ Len(calls) = Len(results)
        /\ Len(results) <= Len(orders)
        /\ \A i \in Calls :
              /\ calls[i].order.id \in 1..Len(orders)
              /\ calls[i].order = orders[calls[i].order.id]
              /\ results[i] = calls[i].result
              /\ results[i].order_id = calls[i].order.id
        /\ \A i, j \in Calls :
              i < j =>
                  \/ calls[i].order.priority > calls[j].order.priority
                  \/ /\ calls[i].order.priority = calls[j].order.priority
                     /\ calls[i].order.id < calls[j].order.id
        /\ pc = "returned" => Len(results) = Len(orders)

\* a batch of three has returned whose first order had the lowest priority
\* and whose other two had the same priority
C9_Witness ==
    /\ pc = "returned"
    /\ Len(orders) = 3
    /\ Len(results) = 3
    /\ orders[1].priority < orders[2].priority
    /\ orders[2].priority = orders[3].priority
    /\ results[1].order_id = 2
    /\ results[2].order_id = 3
    /\ results[3].order_id = 1

\* C10: inside allocate_batch each allocation starts from the pool the
\* allocation before it left, takes nothing from a ticket that an earlier
\* order consumed fully, and takes from a partially consumed ticket at most
\* the available amount that was left of it.
C10_LaterSeesEarlier ==
    pc \in {"batch", "returned"} =>
        \A k \in Calls :
            /\ k > 1 => calls[k].before = calls[k - 1].after
            /\ \A i \in 1..Len(calls[k].before) :
                  LET b == calls[k].before[i]
                  IN  /\ b.available_amount <= 0 => UsedOf(k, b.id) = 0
                      /\ (0 < b.available_amount /\ b.available_amount < b.amount)
                            => UsedOf(k, b.id) <= b.available_amount

\* C11: an allocate call has the pool to itself from its filter step to its
\* pool mutation: the pool it leaves is the pool it read less its own usages
\* (no other call wrote available_amount in between), and no available
\* amount is granted to two orders (no ticket goes below 0).
C11_ExclusiveAccess ==
    /\ \A k \in Calls : calls[k].after = DecrementAll(calls[k].before, Usages(k))
    /\ \A i \in 1..Len(ticket_pool) : ticket_pool[i].available_amount >= 0

\* call k is the first call of its engine
IsFirstCall(k) == \A j \in Calls : j < k => calls[j].engine # calls[k].engine

UsedIds(k) == [i \in 1..Len(Usages(k)) |-> Usages(k)[i].ticket.id]

ToleranceOf(k) ==
    RMax(RInt(config.split_config.tail_diff_abs),
         RMul(RInt(calls[k].order.amount), config.split_config.tail_diff_ratio))

\* order.amount less the used amounts of the selection that the splitter of
\* call k was given
EntryBias(k) ==
    calls[k].order.amount - SumSeq(UsedAmounts(calls[k].adjust[1].entry))

\* C13: when the selection given to adjust_with_split is within the
\* tolerance of the order amount, the selection it returns is the one it was
\* given: the same usages in the same order, none added, none reduced.
C13_NoOpSplit ==
    \A k \in Calls :
        (/\ calls[k].adjust # None
         /\ RLe(RInt(Abs(EntryBias(k))), ToleranceOf(k)))
        => Usages(k) = calls[k].adjust[1].entry

\* the greedy selection overshot the order within the tolerance, with
\* splitting allowed and a reduction admissible, and was returned as it was
C13_Witness ==
    \E k \in Calls :
        /\ calls[k].adjust # None
        /\ config.split_config.allow_split
        /\ config.split_config.min_remain = 0
        /\ EntryBias(k) < 0
        /\ RLe(RInt(Abs(EntryBias(k))), ToleranceOf(k))
        /\ Usages(k) = calls[k].adjust[1].entry
        /\ Usages(k) # <<>>

\* the warnings of adjust_with_split that tell of a residual bias
ResidualWarnings == {"wire_transfer", "split_not_allowed", "cannot_augment", "cannot_reduce"}

\* C14: on a pool of one ticket that passes the filter, is fully available
\* and is smaller than the order, under every split configuration, allocate
\* returns one usage of the whole ticket, bias_amount = order.amount -
\* ticket.amount > 0 and at least one warning about the residual.
C14_SingleSmallerBill ==
    \A k \in Calls :
        (/\ ~ config.equal_amount_first
         /\ Len(calls[k].before) = 1
         /\ Filtered(calls[k].before) = calls[k].before
         /\ calls[k].before[1].available_amount = calls[k].before[1].amount
         /\ calls[k].before[1].amount < calls[k].order.amount)
        => /\ Len(Usages(k)) = 1
           /\ Usages(k)[1].ticket.id = calls[k].before[1].id
           /\ Usages(k)[1].used_amount = calls[k].before[1].amount
           /\ Usages(k)[1].split_ratio = ROne
           /\ calls[k].result.bias_amount
                 = calls[k].order.amount - calls[k].before[1].amount
           /\ calls[k].result.bias_amount > 0
           /\ \E kind \in ResidualWarnings : HasWarning(calls[k].result, kind)

\* C15: every usage with split_ratio < 1 is admissible against the face
\* amount of its ticket: used_amount >= min_use, amount - used_amount >=
\* min_remain and split_ratio >= min_ratio.
C15_SplitAdmissible ==
    \A k \in Calls : \A i \in 1..Len(Usages(k)) :
        LET tu == Usages(k)[i]
        IN  RLt(tu.split_ratio, ROne) =>
                /\ tu.used_amount >= config.split_config.min_use
                /\ tu.ticket.amount - tu.used_amount >= config.split_config.min_remain
                /\ RGe(tu.split_ratio, config.split_config.min_ratio)

\* the warnings with which adjust_with_split gives up, each holding the bias
\* it gave up at
SplitFailures == {"split_not_allowed", "cannot_augment", "cannot_reduce"}

\* C16: a result of the normal path whose final bias is outside the
\* tolerance carries a split-failure warning that names that bias, also when
\* the splitter's loop ran out of passes.
C16_FailureWarned ==
    \A k \in Calls :
        (/\ calls[k].adjust # None
         /\ RGt(RInt(Abs(calls[k].result.bias_amount)), ToleranceOf(k)))
        => \E i \in 1..Len(calls[k].result.warnings) :
               /\ calls[k].result.warnings[i].kind \in SplitFailures
               /\ calls[k].result.warnings[i].val = calls[k].result.bias_amount

\* C17: adjust_with_split makes at most 5 passes, each adds at most one
\* usage, and every result has ticket_count <= max_ticket_count + 5.
C17_BoundedSplitter ==
    \A k \in Calls :
        /\ calls[k].result.ticket_count <= MaxCount + LoopGuardMax
        /\ calls[k].adjust # None =>
              /\ calls[k].adjust[1].passes <= LoopGuardMax
              /\ Len(calls[k].adjust[1].entry) <= MaxCount
              /\ Len(Usages(k)) <= Len(calls[k].adjust[1].entry) + calls[k].adjust[1].passes

\* the splitter used all its passes and each added a usage to a selection
\* that was already at the cap
C17_Witness ==
    \E k \in Calls :
        /\ calls[k].adjust # None
        /\ calls[k].adjust[1].passes = LoopGuardMax
        /\ Len(calls[k].adjust[1].entry) = MaxCount
        /\ calls[k].result.ticket_count = MaxCount + LoopGuardMax

\* the positions in the selection of call k of the bills labelled SMALL
SmallAt(k) == {i \in 1..Len(Usages(k)) : Usages(k)[i].ticket.amount_label = SMALL}

\* the least whole number that is at least 0.8 * n, but at least 1
Top80(n) == CHOOSE c \in 1..Max2(n, 1) : 10 * c >= 8 * n /\ (c = 1 \/ 10 * (c - 1) < 8 * n)

\* the sets of Top80 SMALL bills of smallest face amount: no bill left out has
\* a smaller face amount than one taken
SmallestOf(k) ==
    {S \in SUBSET SmallAt(k) :
        /\ Cardinality(S) = Top80(Cardinality(SmallAt(k)))
        /\ \A i \in S, j \in SmallAt(k) \ S :
              Usages(k)[i].ticket.amount <= Usages(k)[j].ticket.amount}

RECURSIVE UsedSum(_, _)
UsedSum(k, S) ==
    IF S = {} THEN 0
    ELSE LET i == CHOOSE x \in S : TRUE
         IN  Usages(k)[i].used_amount + UsedSum(k, S \ {i})

\* the least bills of call k cover less than the share of the order
Shortfall(k, S) ==
    RLt(RInt(UsedSum(k, S)),
        RMul(RInt(calls[k].order.amount),
             config.constraint_config.small_ticket_80pct_amount_coverage))

RuleApplies(k) == config.constraint_config.small_ticket_limited /\ SmallAt(k) # {}

CountExceeded(k) == calls[k].result.ticket_count > MaxCount

InUnit(r) == RGe(r, RZero) /\ RGe(ROne, r)

DimensionsInUnit(sc) ==
    /\ InUnit(sc.maturity_score)
    /\ InUnit(sc.acceptor_score)
    /\ InUnit(sc.amount_score)
    /\ InUnit(sc.organization_score)

\* C19: with each weight in [0, 1], every TicketScore that score_ticket
\* returned has its four dimension scores and its total_score in [0, 1].
C19_ScoresInUnit ==
    /\ InUnit(config.weight_config.w_maturity)
    /\ InUnit(config.weight_config.w_acceptor)
    /\ InUnit(config.weight_config.w_amount)
    /\ InUnit(config.weight_config.w_organization)
    /\ \A k \in Calls : \A i \in 1..Len(Usages(k)) :
            /\ DimensionsInUnit(Usages(k)[i].score)
            /\ InUnit(Usages(k)[i].score.total_score)

\* the selection the greedy combine of call k handed to the splitter
Entry(k) == calls[k].adjust[1].entry

\* what the order of call k still needed when the greedy combine reached the
\* last bill it selected
LastNeed(k) ==
    calls[k].order.amount
        - SumSeq([i \in 1..(Len(Entry(k)) - 1) |-> Entry(k)[i].used_amount])

\* the available amount, before call k, of the last bill the greedy combine
\* selected
LastAvailable(k) ==
    LET id == Entry(k)[Len(Entry(k))].ticket.id
        i == CHOOSE j \in 1..Len(calls[k].before) : calls[k].before[j].id = id
    IN  Min2(calls[k].before[i].available_amount, calls[k].before[i].amount)

\* splitting is allowed, the last bill of the greedy combine had more
\* available than the remaining need, and the ratio need / face amount is
\* admissible
ExactSplitCase(k) ==
    /\ calls[k].adjust # None
    /\ Entry(k) # <<>>
    /\ config.split_config.allow_split
    /\ LastNeed(k) > 0
    /\ LastAvailable(k) > LastNeed(k)
    /\ validate_split_constraints(Entry(k)[Len(Entry(k))].ticket.amount,
                                  Rat(LastNeed(k), Entry(k)[Len(Entry(k))].ticket.amount),
                                  config)

ExactSplitAmounts(k) ==
    /\ Entry(k)[Len(Entry(k))].used_amount = LastNeed(k)
    /\ Entry(k)[Len(Entry(k))].split_ratio =
           Rat(LastNeed(k), Entry(k)[Len(Entry(k))].ticket.amount)
    /\ Usages(k) = Entry(k)
    /\ calls[k].result.total_amount = calls[k].order.amount
    /\ calls[k].result.bias_amount = 0

\* C20 as stated: in the exact-split case of the greedy combine the bill is
\* used for exactly the remaining need, total_amount = order.amount,
\* bias_amount = 0 and constraints_met is true.
C20_ExactSplitMet ==
    \A k \in Calls :
        ExactSplitCase(k) => ExactSplitAmounts(k) /\ calls[k].result.constraints_met

\* C20 amended: in the exact-split case the bill is used for exactly the
\* remaining need, total_amount = order.amount and bias_amount = 0;
\* constraints_met is true unless the small-ticket rule is enabled and
\* reports a shortfall.
C20_ExactSplit ==
    \A k \in Calls :
        ExactSplitCase(k) =>
            /\ ExactSplitAmounts(k)
            /\ calls[k].result.constraints_met
                  <=> ~ HasWarning(calls[k].result, "small_ticket_shortfall")
            /\ ~ config.constraint_config.small_ticket_limited
                  => calls[k].result.constraints_met

\* a second bill was split to the exact remaining need and the result
\* meets the constraints with the small-ticket rule enabled
C20_Witness ==
    \E k \in Calls :
        /\ ExactSplitCase(k)
        /\ Len(Entry(k)) > 1
        /\ config.constraint_config.small_ticket_limited
        /\ calls[k].result.constraints_met
        /\ calls[k].result.bias_amount = 0

\* lo <= amount < hi
InRange(amount, range) == range[1] <= amount /\ amount < range[2]

\* the label the rule of C21 gives a ticket of this amount
LabelRule(amount, alc, label) ==
    /\ label \in {LARGE, MEDIUM, SMALL}
    /\ InRange(amount, alc.large_range) => label = LARGE
    /\ (~ InRange(amount, alc.large_range) /\ InRange(amount, alc.medium_range))
          => label = MEDIUM
    /\ (/\ ~ InRange(amount, alc.large_range)
        /\ ~ InRange(amount, alc.medium_range)
        /\ InRange(amount, alc.small_range)) => label = SMALL
    /\ (/\ ~ InRange(amount, alc.large_range)
        /\ ~ InRange(amount, alc.medium_range)
        /\ ~ InRange(amount, alc.small_range))
          => label = (IF amount >= alc.large_range[1] THEN LARGE ELSE SMALL)

\* C21: every ticket of the pool carries LARGE if its amount is in the large
\* range, else MEDIUM if in the medium range, else SMALL if in the small
\* range, and outside all three LARGE when amount >= large_range.lo and
\* SMALL otherwise; with the default ranges 100000 is MEDIUM and 1000000 is
\* LARGE.
C21_Classification ==
    \A i \in 1..Len(ticket_pool) :
        /\ LabelRule(ticket_pool[i].amount, config.amount_label_config,
                     ticket_pool[i].amount_label)
        /\ config.amount_label_config = DefaultLabels =>
              /\ ticket_pool[i].amount = 1 => ticket_pool[i].amount_label = MEDIUM
              /\ ticket_pool[i].amount = 10 => ticket_pool[i].amount_label = LARGE

\* one ticket lies in both the large and the medium range, another in none
C21_Witness ==
    \E i, j \in 1..Len(ticket_pool) :
        /\ InRange(ticket_pool[i].amount, config.amount_label_config.large_range)
        /\ InRange(ticket_pool[i].amount, config.amount_label_config.medium_range)
        /\ ticket_pool[i].amount_label = LARGE
        /\ ~ InRange(ticket_pool[j].amount, config.amount_label_config.large_range)
        /\ ~ InRange(ticket_pool[j].amount, config.amount_label_config.medium_range)
        /\ ~ InRange(ticket_pool[j].amount, config.amount_label_config.small_range)
        /\ ticket_pool[j].amount >= config.amount_label_config.large_range[1]
        /\ ticket_pool[j].amount_label = LARGE

\* the share of the pool's face amount held by the tickets of a label
ShareOf(label) ==
    Rat(SumSeq([i \in 1..Len(ticket_pool) |->
                   IF ticket_pool[i].amount_label = label
                   THEN ticket_pool[i].amount ELSE 0]),
        SumSeq([i \in 1..Len(ticket_pool) |-> ticket_pool[i].amount]))

ExpectedOf(label) ==
    IF label = LARGE THEN config.amount_label_config.large_ratio
    ELSE IF label = MEDIUM THEN config.amount_label_config.medium_ratio
    ELSE config.amount_label_config.small_ratio

\* w_L = 2 * current_L - expected_L when current_L > expected_L, else 0
RawOf(label) ==
    IF RGt(ShareOf(label), ExpectedOf(label))
    THEN RSub(RMul(RInt(2), ShareOf(label)), ExpectedOf(label))
    ELSE RZero

RawTotal == RAdd(RawOf(LARGE), RAdd(RawOf(MEDIUM), RawOf(SMALL)))

\* w_L / (sum of the raw weights), 1/3 when the sum is 0
InventoryScoreOf(label) ==
    IF REq(RawTotal, RZero) THEN Rat(1, 3) ELSE RDiv(RawOf(label), RawTotal)

\* C22: under OPTIMIZE_INVENTORY a ticket's amount score is w_L / sum of the
\* raw weights, and 1/3 when the sum is 0; a label that is not
\* over-represented scores 0 when another is, and the three label scores sum
\* to 1.
C22_InventoryScore ==
    \A k \in 1..Len(results) :
        /\ ~ results[k].raised
        /\ results[k].score # None
        /\ REq(results[k].score[1], InventoryScoreOf(results[k].ticket.amount_label))
        /\ (/\ REq(RawOf(results[k].ticket.amount_label), RZero)
            /\ ~ REq(RawTotal, RZero)) => REq(results[k].score[1], RZero)
        /\ REq(RAdd(InventoryScoreOf(LARGE),
                    RAdd(InventoryScoreOf(MEDIUM), InventoryScoreOf(SMALL))), ROne)

\* the scores that were returned are the ones C22 names
InventoryReturned ==
    \A k \in 1..Len(results) :
        ~ results[k].raised =>
            REq(results[k].score[1], InventoryScoreOf(results[k].ticket.amount_label))

\* the ticket of the pool, as it was before call k, that a usage refers to
BeforeOf(k, id) ==
    calls[k].before[CHOOSE j \in 1..Len(calls[k].before) : calls[k].before[j].id = id]

MaturityAllowed(t) ==
    config.constraint_config.allowed_maturity_days = None
    \/ /\ t.maturity_days >= config.constraint_config.allowed_maturity_days[1]
       /\ t.maturity_days <= config.constraint_config.allowed_maturity_days[2]

AmountAllowed(t) ==
    config.constraint_config.allowed_amount_range = None
    \/ /\ t.amount >= config.constraint_config.allowed_amount_range[1]
       /\ t.amount <= config.constraint_config.allowed_amount_range[2]

AcceptorAllowed(t) ==
    config.constraint_config.allowed_acceptor_classes = None
    \/ t.acceptor_class \in config.constraint_config.allowed_acceptor_classes[1]

\* C23: every bill of a result passed every configured pre-filter condition
\* (bounds inclusive) and had available_amount > 0 when the call started.
C23_SelectedWereAdmitted ==
    \A k \in Calls : \A i \in 1..Len(Usages(k)) :
        /\ \E j \in 1..Len(calls[k].before) :
              calls[k].before[j].id = Usages(k)[i].ticket.id
        /\ MaturityAllowed(BeforeOf(k, Usages(k)[i].ticket.id))
        /\ AmountAllowed(BeforeOf(k, Usages(k)[i].ticket.id))
        /\ AcceptorAllowed(BeforeOf(k, Usages(k)[i].ticket.id))
        /\ BeforeOf(k, Usages(k)[i].ticket.id).available_amount > 0

\* with a maturity and an amount interval configured, a bill at the end of
\* the amount interval was selected while the pool held a bill outside it
C23_Witness ==
    \E k \in Calls :
        /\ config.constraint_config.allowed_maturity_days # None
        /\ config.constraint_config.allowed_amount_range # None
        /\ \E i \in 1..Len(Usages(k)) :
              Usages(k)[i].ticket.amount = config.constraint_config.allowed_amount_range[2]
        /\ \E j \in 1..Len(calls[k].before) :
              /\ calls[k].before[j].available_amount > 0
              /\ ~ AmountAllowed(calls[k].before[j])

\* the pass of call k that called _split_from_selected
ReduceOf(k) == calls[k].adjust[1].reduce[1]

\* the positions at which the returned selection differs from the one the
\* reduce step was given
ReducedAt(k) ==
    {i \in 1..Len(ReduceOf(k).before) :
        i > Len(Usages(k)) \/ Usages(k)[i] # ReduceOf(k).before[i]}

\* the usage at position i was lowered by exactly |bias| to an admissible
\* share of the same bill
LoweredAt(k, i) ==
    /\ Usages(k)[i].ticket = ReduceOf(k).before[i].ticket
    /\ Usages(k)[i].used_amount =
          ReduceOf(k).before[i].used_amount - Abs(ReduceOf(k).bias)
    /\ Usages(k)[i].split_ratio =
          Rat(Usages(k)[i].used_amount, Usages(k)[i].ticket.amount)
    /\ validate_split_constraints(Usages(k)[i].ticket.amount,
                                  Usages(k)[i].split_ratio, config)

\* C24: a reduce step of the splitter either fails, leaving every usage as it
\* was and a warning, or lowers exactly one usage by exactly |bias| to an
\* admissible value; it never changes the number of usages, and after a
\* successful reduce the bias is 0 and the loop ends at its next pass.
C24_ReduceStep ==
    \A k \in Calls :
        (calls[k].adjust # None /\ calls[k].adjust[1].reduce # None) =>
            /\ ReduceOf(k).bias < 0
            /\ Len(Usages(k)) = Len(ReduceOf(k).before)
            /\ \/ /\ ReducedAt(k) = {}
                  /\ \E i \in 1..Len(calls[k].result.warnings) :
                        calls[k].result.warnings[i] =
                            [kind |-> "cannot_reduce", val |-> ReduceOf(k).bias]
                  /\ calls[k].adjust[1].passes = ReduceOf(k).pass
               \/ /\ Cardinality(ReducedAt(k)) = 1
                  /\ \A i \in ReducedAt(k) : LoweredAt(k, i)
                  /\ HasWarning(calls[k].result, "reduce")
                  /\ calls[k].result.bias_amount = 0
                  /\ calls[k].adjust[1].passes <= ReduceOf(k).pass + 1

\* after an augment overshot the order, a reduce lowered one of two usages
C24_Witness ==
    \E k \in Calls :
        /\ calls[k].adjust # None
        /\ calls[k].adjust[1].reduce # None
        /\ ReduceOf(k).pass > 1
        /\ Len(Usages(k)) > 1
        /\ Cardinality(ReducedAt(k)) = 1
        /\ calls[k].result.bias_amount = 0

\* the position in the filtered list F of the bill with this id
PlaceIn(F, id) == CHOOSE j \in 1..Len(F) : F[j].id = id

\* E, the greedy selection, against the filtered bills F and their scores S:
\* E runs through F by total score descending, ties in pool order, and
\* leaves out no bill that comes before one it took
GreedyPrefix(E, F, S) ==
    /\ \A a \in 1..Len(E) : \E j \in 1..Len(F) : F[j].id = E[a].ticket.id
    /\ \A a, b \in 1..Len(E) : a < b =>
          \/ RGt(E[a].score.total_score, E[b].score.total_score)
          \/ /\ REq(E[a].score.total_score, E[b].score.total_score)
             /\ PlaceIn(F, E[a].ticket.id) < PlaceIn(F, E[b].ticket.id)
    /\ \A a \in 1..Len(E) : REq(E[a].score.total_score,
                                 S[PlaceIn(F, E[a].ticket.id)].total_score)
    /\ \A a \in 1..Len(E), j \in 1..Len(F) :
          (\A b \in 1..Len(E) : E[b].ticket.id # F[j].id) =>
              /\ ~ RGt(S[j].total_score, E[a].score.total_score)
              /\ REq(S[j].total_score, E[a].score.total_score)
                    => PlaceIn(F, E[a].ticket.id) < j

\* the greedy combine stopped at the cap, at the order's amount, or at the
\* end of the filtered bills
GreedyStop(E, F, order) ==
    \/ Len(E) = MaxCount
    \/ SumSeq([a \in 1..Len(E) |-> E[a].used_amount]) >= order.amount
    \/ Len(E) = Len(F)

GreedyOf(k, F) ==
    /\ GreedyPrefix(Entry(k), F,
                    ScoreList(F, calls[k].order, config,
                              _build_context(F, calls[k].rng)))
    /\ GreedyStop(Entry(k), F, calls[k].order)

\* C25: the bills the greedy combine chose are a prefix of the filtered bills
\* sorted by total score descending, ties in pool order, and the greedy
\* stopped only at max_ticket_count bills, at accumulated >= order.amount or
\* when every filtered bill was taken.
C25_GreedyPrefix ==
    \A k \in Calls :
        calls[k].adjust # None => GreedyOf(k, Filtered(calls[k].before))

\* the greedy took the second bill of the pool and left the first, of lower
\* score, because the order was covered
C25_Witness ==
    \E k \in Calls :
        /\ calls[k].adjust # None
        /\ Len(Filtered(calls[k].before)) = 2
        /\ Len(Entry(k)) = 1
        /\ MaxCount > 1
        /\ Entry(k)[1].ticket.id = Filtered(calls[k].before)[2].id
        /\ Entry(k)[1].used_amount >= calls[k].order.amount

\* what call k took off the available amount of the j-th bill of the pool
DecreaseOf(k, j) ==
    calls[k].before[j].available_amount - calls[k].after[j].available_amount

\* C26: for every allocate call and every bill of the pool, the decrease of
\* available_amount over the call is the sum of used_amount over the bill's
\* usages in the result (0 for a bill not in the result), no other field of
\* a bill changes, during or between calls, and the decreases add up to
\* result.total_amount.
C26_FrameEffect ==
    /\ \A k \in Calls :
          /\ Len(calls[k].after) = Len(calls[k].before)
          /\ \A i \in 1..Len(Usages(k)) : \E j \in 1..Len(calls[k].before) :
                calls[k].before[j].id = Usages(k)[i].ticket.id
          /\ \A j \in 1..Len(calls[k].before) :
                /\ DecreaseOf(k, j) = UsedOf(k, calls[k].before[j].id)
                /\ [calls[k].after[j] EXCEPT
                       !.available_amount = calls[k].before[j].available_amount]
                      = calls[k].before[j]
          /\ SumSeq([j \in 1..Len(calls[k].before) |-> DecreaseOf(k, j)])
                = calls[k].result.total_amount
          /\ k > 1 => calls[k].before = calls[k - 1].after
    /\ calls # <<>> => ticket_pool = calls[Len(calls)].after

\* a call through the equal-amount shortcut took a bill, and a later call on
\* the normal path took from another bill and left the first untouched
C26_Witness ==
    \E k1, k2 \in Calls :
        /\ k1 < k2
        /\ calls[k1].adjust = None
        /\ calls[k1].result.total_amount > 0
        /\ calls[k2].adjust # None
        /\ calls[k2].result.total_amount > 0
        /\ \E j \in 1..Len(calls[k2].before) :
              DecreaseOf(k1, j) > 0 /\ DecreaseOf(k2, j) = 0

\* C27: no bill appears more than once in the selected_tickets of one
\* result.
C27_NoDuplicateBill ==
    \A k \in Calls : \A i, j \in 1..Len(Usages(k)) :
        Usages(k)[i].ticket.id = Usages(k)[j].ticket.id => i = j

\* the selection of call k without the scores: ids, used amounts, ratios
Selection(k) ==
    [i \in 1..Len(Usages(k)) |->
        <<Usages(k)[i].ticket.id, Usages(k)[i].used_amount, Usages(k)[i].split_ratio>>]

\* calls k1 and k2 were made on engines that differ in the flag only, for the
\* same order on pools in the same state
FlagTwins(k1, k2) ==
    /\ calls[k1].engine # calls[k2].engine
    /\ calls[k1].order = calls[k2].order
    /\ calls[k1].before = calls[k2].before
    /\ calls[k1].rng = calls[k2].rng

\* C28: runs that differ only in split_condition_unlimited return the same
\* bills, used amounts, split ratios, bias_amount and constraints_met and
\* leave the same available amounts in the pool.
C28_FlagNoEffect ==
    \A k1, k2 \in Calls :
        FlagTwins(k1, k2) =>
            /\ Selection(k1) = Selection(k2)
            /\ calls[k1].result.bias_amount = calls[k2].result.bias_amount
            /\ calls[k1].result.total_amount = calls[k2].result.total_amount
            /\ calls[k1].result.constraints_met = calls[k2].result.constraints_met
            /\ calls[k1].after = calls[k2].after

\* the second calls of the two engines left a difference within the
\* tolerance: one run reports the wire transfer, the other does not
C28_Witness ==
    \E k1, k2 \in Calls :
        /\ FlagTwins(k1, k2)
        /\ ~ IsFirstCall(k1)
        /\ ~ IsFirstCall(k2)
        /\ calls[k1].result.bias_amount > 0
        /\ Usages(k1) # <<>>
        /\ HasWarning(calls[k1].result, "wire_transfer")
        /\ ~ HasWarning(calls[k2].result, "wire_transfer")

\* the validation after the allocation of call k failed
ValidationFailed(k) ==
    /\ calls[k].adjust # None
    /\ ~ calls[k].result.constraints_met
    /\ \/ HasWarning(calls[k].result, "count_exceeded")
       \/ HasWarning(calls[k].result, "small_ticket_shortfall")

\* C29: when the validation after the allocation fails, the pool stays
\* decremented by the used amounts of the returned selection, and the next
\* order, of the same batch or not, starts from the reduced inventory.
C29_NoRollback ==
    \A k \in Calls :
        ValidationFailed(k) =>
            /\ \A j \in 1..Len(calls[k].before) :
                  calls[k].after[j].available_amount =
                      calls[k].before[j].available_amount
                          - UsedOf(k, calls[k].before[j].id)
            /\ calls[k].result.total_amount > 0 => calls[k].after # calls[k].before
            /\ k = Len(calls) => ticket_pool = calls[k].after
            /\ k < Len(calls) => calls[k + 1].before = calls[k].after

\* the first order of a batch failed the validation after taking from the
\* pool, and the second order of the batch started from what it left
C29_Witness ==
    \E k \in Calls :
        /\ ValidationFailed(k)
        /\ calls[k].result.total_amount > 0
        /\ k < Len(calls)
        /\ Len(orders_sorted) >= 2
        /\ calls[k].order = orders_sorted[1]
        /\ calls[k + 1].order = orders_sorted[2]
        /\ calls[k + 1].before # calls[k].before

\* the priority of the order that the i-th result of the batch answers
PriorityOfResult(i) == orders[results[i].order_id].priority

\* C30: the list allocate_batch returns is in processing order, priority
\* descending and stable, not in input order: the i-th result answers the
\* i-th order of the priority-sorted sequence, and the caller's list of
\* orders is as it was passed.
C30_ProcessingOrder ==
    pc = "returned" =>
        /\ Len(results) = Len(orders)
        /\ \A i \in 1..Len(orders) : orders[i].id = i
        /\ \A i \in 1..Len(results) :
              /\ results[i].order_id = orders_sorted[i].id
              /\ results[i].target_amount = orders[results[i].order_id].amount
        /\ \A i, j \in 1..Len(results) :
              i < j =>
                  \/ PriorityOfResult(i) > PriorityOfResult(j)
                  \/ /\ PriorityOfResult(i) = PriorityOfResult(j)
                     /\ results[i].order_id < results[j].order_id
        /\ (\E i, j \in 1..Len(orders) :
               i < j /\ orders[i].priority < orders[j].priority)
              => \E i \in 1..Len(results) : results[i].order_id # i

\* a batch of three returned with the second order's result first and the
\* other two in input order
C30_Witness ==
    /\ pc = "returned"
    /\ Len(orders) = 3
    /\ orders[1].priority < orders[2].priority
    /\ orders[3].priority = orders[1].priority
    /\ orders[1].amount # orders[2].amount
    /\ [i \in 1..3 |-> results[i].order_id] = <<2, 1, 3>>
    /\ [i \in 1..3 |-> orders[i].id] = <<1, 2, 3>>

====
